---- MODULE Spec2Model ----
(***************************************************************************)
(* Model of mm::OrderBook (src/src/order_book.cpp) together with the two   *)
(* MemoryPool instances it owns (src/include/memory_pool.hpp).             *)
(*                                                                         *)
(* Pool records are numbered slots: order_mem[s] and level_mem[s] are the  *)
(* contents of slot s, a pointer is a slot number and 0 is nullptr.        *)
(* deallocate() only pushes the slot on the free list, the record keeps    *)
(* its contents and stays readable, exactly as in the source.              *)
(*                                                                         *)
(* Further parts: threads calling one book under its mutex_ (SpecThreads,  *)
(* SpecStats), the OrderBookManager registry (SpecRegistry), the lock()    *)
(* and unlock() calls along every entry point (SpecLocks) and a            *)
(* MemoryPool<T> on its own, with its chunks (SpecPool).                   *)
(***************************************************************************)
EXTENDS Integers, Sequences, FiniteSets, TLC

\* ------------------------------------------------------------------ bounds
\* Number of public operations called on the book, under Spec and under
\* the deeper SpecDeep.
MaxOps == 3
MaxOpsDeep == 5
\* Quantity and order_count are uint32_t; the model keeps the wrap-around
\* and scales the word down to QuantityBits bits.
QuantityBits == 4
\* Number of calls under SpecQuotes.
MaxQuoteOps == 3
\* Number of calls the threads make between them under SpecThreads.
MaxCalls == 3
\* Number of calls the threads make on the OrderBookManager.
MaxLookups == 4
\* Number of calls the threads make under SpecLocks.
MaxEntries == 3
\* Number of allocate and deallocate calls on a pool under SpecPool.
MaxPoolOps == 7

Prices == {1, 2}
Quantities == {0, 1, 2}
Sides == {"BUY", "SELL"}
\* Prices and quantities of the quotes placed under SpecQuotes.
QuotePrices == {-3, 0, 2}
QuoteQuantities == {1, 2}
\* The depths asked of get_bids and get_asks.
Depths == 0..3

QMod == 2^QuantityBits

\* ------------------------------------------------------------------- state
VARIABLES
    orders_,      \* std::map<OrderId, Order*>: id -> order slot
    bids_,        \* std::map<Price, PriceLevel*, greater>: price -> level slot
    asks_,        \* std::map<Price, PriceLevel*, less>: price -> level slot
    order_mem,    \* order_pool_ records, by slot
    order_free,   \* order_pool_.free_list_, top of the stack last
    level_mem,    \* level_pool_ records, by slot
    level_free,   \* level_pool_.free_list_, top of the stack last
    crashed,      \* the process hit undefined behaviour and was terminated
    stale_erase,  \* some execute_trade erased through an invalidated iterator
    call,         \* the last public call: its name and what it returned
    nops,         \* number of public calls made so far
    pc,           \* per thread: the call it is in and its position in it
    owner,        \* per std::mutex: the thread that holds it, 0 when unlocked
    order_books_, \* OrderBookManager: std::map<SymbolId, unique_ptr<OrderBook>>
    heap,         \* the OrderBook objects make_unique has constructed so far
    seen,         \* the symbols get_active_symbols has reported so far
    chunks_,      \* a MemoryPool<T> on its own: the size of each chunk
    capacity_,    \* its capacity_
    allocated_count_, \* its allocated_count_
    free_list_,   \* its free_list_, top of the stack last
    peak_usage_,  \* its peak_usage_
    live,         \* the handles it has handed out and not got back
    allocate_calls,   \* the allocate() calls made on it so far
    deallocate_calls, \* the deallocate() calls made on it so far
    positions_,   \* PositionTracker: std::unordered_map<SymbolId, Position>
    trade_history_,   \* PositionTracker: per symbol, the vector of Trade entries
    mmap_,        \* MMapPositionTracker: the mapped file as an array of Position
    matching_enabled_, \* ScenarioRunner: the matching flag
    script,       \* the scenario file run_scenario was given, line by line
    run,          \* run_scenario: its position, its commands and its result
    symbol_mapping_,  \* ITCHParser: stock locate -> SymbolId
    next_symbol_id_,  \* ITCHParser: the next SymbolId to hand out
    stats_,       \* ITCHParser: its statistics counters
    file          \* parse_file: the stream, the buffer and the offset in it

vars == <<orders_, bids_, asks_, order_mem, order_free, level_mem, level_free,
          crashed, stale_erase, call, nops, pc, owner,
          order_books_, heap, seen,
          chunks_, capacity_, allocated_count_, free_list_, peak_usage_, live,
          allocate_calls, deallocate_calls,
          positions_, trade_history_, mmap_, matching_enabled_,
          script, run, symbol_mapping_, next_symbol_id_, stats_, file>>

\* The parts of the state, by owner.
bookVars == <<orders_, bids_, asks_, order_mem, order_free, level_mem, level_free>>
registryVars == <<order_books_, heap, seen>>
poolVars == <<chunks_, capacity_, allocated_count_, free_list_, peak_usage_, live,
             allocate_calls, deallocate_calls>>
trackerVars == <<positions_, trade_history_, mmap_>>
scenarioVars == <<matching_enabled_>>
runVars == <<script, run>>
feedVars == <<symbol_mapping_, next_symbol_id_, stats_, file>>
driverVars == <<runVars, feedVars>>
elsewhere == <<registryVars, poolVars, trackerVars, scenarioVars, driverVars>>

\* What a call made by the single caller of Spec, SpecDeep and SpecQuotes
\* never touches.
outsideBook == <<pc, owner, elsewhere>>

\* --------------------------------------------------------- unsigned words
\* a - b and a + b on uint32_t (Quantity, order_count).
USub(a, b) == ((a - b) + QMod) % QMod
UAdd(a, b) == (a + b) % QMod

MinOf(S) == CHOOSE x \in S : \A y \in S : x <= y
MaxOf(S) == CHOOSE x \in S : \A y \in S : x >= y
Min2(a, b) == IF a <= b THEN a ELSE b

\* The ids a caller passes: every id of the order table and the next one, so
\* that known, unknown, fresh and duplicate ids all occur.
OrderIds == 1..(Cardinality(DOMAIN orders_) + 1)

\* ------------------------------------------------------------- the records
\* Order(): the default constructor (order_book.hpp).
DefaultOrder ==
    [id |-> 0, price |-> 0, quantity |-> 0, filled_quantity |-> 0,
     side |-> "BUY", status |-> "PENDING", level |-> 0]

\* PriceLevel(): the default constructor.
DefaultLevel == [price |-> 0, total_quantity |-> 0, order_count |-> 0]

\* The whole book as one value, threaded through the helpers below.
Book ==
    [orders_ |-> orders_, bids_ |-> bids_, asks_ |-> asks_,
     order_mem |-> order_mem, order_free |-> order_free,
     level_mem |-> level_mem, level_free |-> level_free]

\* ------------------------------------------------------------- MemoryPool
\* MemoryPool<T>::allocate(): pop the free list, else the next unused slot.
\* Below the initial capacity (10000 orders, 1000 levels) no chunk is added.
PoolAllocate(free, mem, fresh) ==
    IF Len(free) > 0
    THEN [slot |-> free[Len(free)], free |-> SubSeq(free, 1, Len(free) - 1), mem |-> mem]
    ELSE [slot |-> Len(mem) + 1, free |-> free, mem |-> Append(mem, fresh)]

\* MemoryPool<T>::deallocate(): push, the record is left as it is.
PoolDeallocate(free, slot) == Append(free, slot)

\* ------------------------------------------------------ private helpers
Remaining(o) == USub(o.quantity, o.filled_quantity)

Index(b, side) == IF side = "BUY" THEN b.bids_ ELSE b.asks_

SetIndex(b, side, idx) ==
    IF side = "BUY" THEN [b EXCEPT !.bids_ = idx] ELSE [b EXCEPT !.asks_ = idx]

MapErase(f, k) == [x \in DOMAIN f \ {k} |-> f[x]]
MapPut(f, k, v) == [x \in DOMAIN f \cup {k} |-> IF x = k THEN v ELSE f[x]]

\* OrderBook::find_order
find_order(b, order_id) ==
    IF order_id \in DOMAIN b.orders_ THEN b.orders_[order_id] ELSE 0

\* OrderBook::get_or_create_level: [b, level]
get_or_create_level(b, price, side) ==
    IF price \in DOMAIN Index(b, side)
    THEN [b |-> b, level |-> Index(b, side)[price]]
    ELSE LET a == PoolAllocate(b.level_free, b.level_mem, DefaultLevel)
             rec == [price |-> price, total_quantity |-> 0, order_count |-> 0]
             b1 == [b EXCEPT !.level_free = a.free,
                             !.level_mem = [a.mem EXCEPT ![a.slot] = rec]]
         IN  [b |-> SetIndex(b1, side, MapPut(Index(b1, side), price, a.slot)),
              level |-> a.slot]

\* OrderBook::remove_empty_level
remove_empty_level(b, price, side) ==
    LET idx == Index(b, side) IN
    IF price \in DOMAIN idx /\ b.level_mem[idx[price]].total_quantity = 0
    THEN SetIndex([b EXCEPT !.level_free = PoolDeallocate(@, idx[price])],
                  side, MapErase(idx, price))
    ELSE b

\* OrderBook::update_level_stats
update_level_stats(b, level, delta, add) ==
    IF add
    THEN [b EXCEPT !.level_mem[level].total_quantity = UAdd(@, delta),
                   !.level_mem[level].order_count = UAdd(@, 1)]
    ELSE [b EXCEPT !.level_mem[level].total_quantity = USub(@, delta),
                   !.level_mem[level].order_count = USub(@, 1)]

\* OrderBook::remove_order_from_level
remove_order_from_level(b, order) ==
    LET o == b.order_mem[order] IN
    IF o.level # 0
    THEN LET b1 == update_level_stats(b, o.level, Remaining(o), FALSE)
             b2 == remove_empty_level(b1, b1.level_mem[o.level].price, o.side)
         IN  [b2 EXCEPT !.order_mem[order].level = 0]
    ELSE b

\* ------------------------------------------------------ public operations
\* OrderBook::add_order past the duplicate check: allocate, fill in, link,
\* store, update the level. [b, ret]
AcceptOrder(b, order_id, price, quantity, side) ==
    LET a == PoolAllocate(b.order_free, b.order_mem, DefaultOrder)
        b1 == [b EXCEPT !.order_free = a.free, !.order_mem = a.mem]
        g == get_or_create_level(b1, price, side)
        rec == [id |-> order_id, price |-> price, quantity |-> quantity,
                filled_quantity |-> 0, side |-> side, status |-> "ACTIVE",
                level |-> g.level]
        b2 == [g.b EXCEPT !.order_mem[a.slot] = rec,
                          !.orders_ = MapPut(@, order_id, a.slot)]
    IN  [b |-> update_level_stats(b2, g.level, quantity, TRUE), ret |-> TRUE]

\* add_order as it would be if the book refused an order whose price
\* reaches the other side.
add_order_RefusingCrossed(b, order_id, price, quantity, side) ==
    IF \/ order_id \in DOMAIN b.orders_
       \/ side = "BUY" /\ \E pa \in DOMAIN b.asks_ : price >= pa
       \/ side = "SELL" /\ \E pb \in DOMAIN b.bids_ : pb >= price
    THEN [b |-> b, ret |-> FALSE]
    ELSE AcceptOrder(b, order_id, price, quantity, side)

\* add_order as it would be without the check for a known id.
add_order_Unchecked(b, order_id, price, quantity, side) ==
    AcceptOrder(b, order_id, price, quantity, side)

\* OrderBook::add_order: [b, ret]
add_order(b, order_id, price, quantity, side) ==
    IF order_id \in DOMAIN b.orders_
    THEN [b |-> b, ret |-> FALSE]
    ELSE AcceptOrder(b, order_id, price, quantity, side)

\* OrderBook::cancel_order: [b, ret]
cancel_order(b, order_id, quantity) ==
    LET order == find_order(b, order_id) IN
    IF order = 0 \/ b.order_mem[order].status # "ACTIVE"
    THEN [b |-> b, ret |-> FALSE]
    ELSE LET o == b.order_mem[order]
             cancel_qty == IF quantity = 0 THEN Remaining(o)
                           ELSE Min2(quantity, Remaining(o))
             filled == UAdd(o.filled_quantity, cancel_qty)
             status == IF filled >= o.quantity THEN "FILLED" ELSE o.status
             b1 == [b EXCEPT !.order_mem[order].filled_quantity = filled,
                             !.order_mem[order].status = status]
             b2 == update_level_stats(b1, o.level, cancel_qty, FALSE)
         IN  IF status = "FILLED"
             THEN LET b3 == remove_order_from_level(b2, order)
                  IN  [b |-> [b3 EXCEPT !.orders_ = MapErase(@, order_id),
                                        !.order_free = PoolDeallocate(@, order)],
                       ret |-> TRUE]
             ELSE [b |-> b2, ret |-> TRUE]

\* OrderBook::modify_order: [b, ret]
modify_order(b, order_id, new_price, new_quantity) ==
    LET order == find_order(b, order_id) IN
    IF order = 0 \/ b.order_mem[order].status # "ACTIVE"
    THEN [b |-> b, ret |-> FALSE]
    ELSE LET o == b.order_mem[order]
             old_remaining == Remaining(o)
             b1 == update_level_stats(b, o.level, old_remaining, FALSE)
             b2 == [b1 EXCEPT !.order_mem[order].price = new_price,
                              !.order_mem[order].quantity = new_quantity]
             g == get_or_create_level(b2, new_price, o.side)
             b3 == [g.b EXCEPT !.order_mem[order].level = g.level]
         IN  [b |-> update_level_stats(b3, g.level,
                                       USub(new_quantity, o.filled_quantity), TRUE),
              ret |-> TRUE]

\* The side execute_trade matches against: a buy takes asks, a sell bids.
Victim(side) == IF side = "BUY" THEN "SELL" ELSE "BUY"

\* asks_.end() / bids_.end()
END == -1

\* asks_.begin() / bids_.begin(): lowest ask key, highest bid key.
Begin(idx, vside) ==
    IF DOMAIN idx = {} THEN END
    ELSE IF vside = "SELL" THEN MinOf(DOMAIN idx) ELSE MaxOf(DOMAIN idx)

\* ++it from the element with key k (also what erase(it) returns).
Successor(idx, vside, k) ==
    LET c == IF vside = "SELL" THEN {x \in DOMAIN idx : x > k}
             ELSE {x \in DOMAIN idx : x < k}
    IN  IF c = {} THEN END
        ELSE IF vside = "SELL" THEN MinOf(c) ELSE MaxOf(c)

\* execute_trade, the inner loop "for (auto &order_pair : orders_)" over the
\* ids not yet visited, in key order: the book after the loop.
RECURSIVE FillOrders(_, _, _, _)
FillOrders(b, level, execute_qty, ids) ==
    IF ids = {} THEN b
    ELSE LET id == MinOf(ids)
             order == b.orders_[id]
             o == b.order_mem[order]
         IN  IF o.level = level /\ o.status = "ACTIVE"
             THEN LET order_execute == Min2(execute_qty, Remaining(o))
                      filled == UAdd(o.filled_quantity, order_execute)
                      left == USub(execute_qty, order_execute)
                      b1 == [b EXCEPT !.order_mem[order].filled_quantity = filled]
                      b2 == IF filled >= o.quantity
                            THEN LET c1 == [b1 EXCEPT !.order_mem[order].status = "FILLED"]
                                     c2 == remove_order_from_level(c1, order)
                                 IN  [c2 EXCEPT !.order_free = PoolDeallocate(@, order)]
                            ELSE b1
                  IN  IF left = 0 THEN b2
                      ELSE FillOrders(b2, level, left, ids \ {id})
             ELSE FillOrders(b, level, execute_qty, ids \ {id})

\* What erase(it) or ++it can do on an iterator that remove_empty_level
\* already erased (undefined behaviour): the process is terminated, or the
\* map is left as it is and the loop goes on with the following element.
EraseOutcomes == {"abort", "continue"}

\* execute_trade, the loop over the levels from iterator it on: the set of
\* possible results [b, remaining_qty, crashed, stale]; stale tells whether an
\* invalidated iterator has been used on the way.
RECURSIVE MatchLevels(_, _, _, _, _, _)
MatchLevels(b, side, price, remaining_qty, it, stale) ==
    LET vside == Victim(side)
        idx == Index(b, vside)
    IN
    IF it = END \/ remaining_qty = 0
    THEN {[b |-> b, remaining_qty |-> remaining_qty, crashed |-> FALSE,
           stale |-> stale]}
    ELSE LET level == idx[it]
             lv == b.level_mem[level]
         IN
         IF (side = "BUY" /\ lv.price > price) \/ (side = "SELL" /\ lv.price < price)
         THEN {[b |-> b, remaining_qty |-> remaining_qty, crashed |-> FALSE,
                stale |-> stale]}
         ELSE LET execute_qty == Min2(remaining_qty, lv.total_quantity)
                  b1 == [b EXCEPT !.level_mem[level].total_quantity = USub(@, execute_qty)]
                  rem1 == USub(remaining_qty, execute_qty)
                  b2 == FillOrders(b1, level, execute_qty, DOMAIN b1.orders_)
                  idx2 == Index(b2, vside)
                  next == Successor(idx2, vside, it)
                  gone == b2.level_mem[level].total_quantity = 0
              IN
              IF it \in DOMAIN idx2
              THEN IF gone
                   THEN MatchLevels(
                            SetIndex([b2 EXCEPT !.level_free = PoolDeallocate(@, level)],
                                     vside, MapErase(idx2, it)),
                            side, price, rem1, next, stale)
                   ELSE MatchLevels(b2, side, price, rem1, next, stale)
              ELSE UNION {
                     IF u = "abort"
                     THEN {[b |-> b2, remaining_qty |-> rem1, crashed |-> TRUE,
                            stale |-> TRUE]}
                     ELSE MatchLevels(
                              IF gone
                              THEN [b2 EXCEPT !.level_free = PoolDeallocate(@, level)]
                              ELSE b2,
                              side, price, rem1, next, TRUE)
                     : u \in EraseOutcomes }

\* OrderBook::execute_trade: the set of possible results
\* [b, ret, crashed, stale]; ret is meaningless when crashed.
execute_trade(b, price, quantity, side) ==
    IF DOMAIN Index(b, Victim(side)) = {}
    THEN {[b |-> b, ret |-> FALSE, crashed |-> FALSE, stale |-> FALSE]}
    ELSE {[b |-> r.b, ret |-> (~r.crashed /\ r.remaining_qty < quantity),
           crashed |-> r.crashed, stale |-> r.stale] :
            r \in MatchLevels(b, side, price, quantity,
                              Begin(Index(b, Victim(side)), Victim(side)), FALSE)}

\* OrderBook::get_best_bid: <<price, quantity>>
get_best_bid(b) ==
    IF DOMAIN b.bids_ = {} THEN <<0, 0>>
    ELSE LET level == b.level_mem[b.bids_[MaxOf(DOMAIN b.bids_)]]
         IN  <<level.price, level.total_quantity>>

\* OrderBook::get_best_ask: <<price, quantity>>
get_best_ask(b) ==
    IF DOMAIN b.asks_ = {} THEN <<0, 0>>
    ELSE LET level == b.level_mem[b.asks_[MinOf(DOMAIN b.asks_)]]
         IN  <<level.price, level.total_quantity>>

\* get_bids / get_asks, the loop over the index of a side from iterator it
\* on, result holding the pairs collected so far.
RECURSIVE CollectLevels(_, _, _, _, _)
CollectLevels(b, side, it, depth, result) ==
    IF it = END \/ Len(result) >= depth THEN result
    ELSE LET level == b.level_mem[Index(b, side)[it]]
         IN  CollectLevels(b, side, Successor(Index(b, side), side, it), depth,
                           Append(result, <<level.price, level.total_quantity>>))

\* OrderBook::get_bids
get_bids(b, depth) == CollectLevels(b, "BUY", Begin(b.bids_, "BUY"), depth, <<>>)

\* OrderBook::get_asks
get_asks(b, depth) == CollectLevels(b, "SELL", Begin(b.asks_, "SELL"), depth, <<>>)

\* Price / 2 and the like in C++: the quotient truncated towards zero.
CDiv(a, d) == IF a >= 0 THEN a \div d ELSE -((-a) \div d)

\* OrderBook::get_mid_price
get_mid_price(b) ==
    LET bid_price == get_best_bid(b)[1]
        ask_price == get_best_ask(b)[1]
    IN  IF bid_price = 0 \/ ask_price = 0 THEN 0
        ELSE CDiv(bid_price + ask_price, 2)

\* OrderBook::get_spread
get_spread(b) ==
    LET bid_price == get_best_bid(b)[1]
        ask_price == get_best_ask(b)[1]
    IN  IF bid_price = 0 \/ ask_price = 0 THEN 0
        ELSE ask_price - bid_price

\* ------------------------------------------------------------ the machine
\* ----------------------------------------------------------------- threads
\* The threads that call into one book, and the mutexes they meet.
Threads == {1, 2}
Mutexes ==
    {"OrderBookManager", "OrderBook", "order_pool_", "level_pool_", "PositionTracker"}

EmptyBook ==
    [orders_ |-> <<>>, bids_ |-> <<>>, asks_ |-> <<>>,
     order_mem |-> <<>>, order_free |-> <<>>,
     level_mem |-> <<>>, level_free |-> <<>>]

\* Stats{}: the statistics before any were taken.
NoStats ==
    [total_orders |-> 0, active_orders |-> 0, bid_levels |-> 0, ask_levels |-> 0,
     best_bid |-> 0, best_ask |-> 0, mid_price |-> 0, spread |-> 0]

\* A thread outside every call.  In a call: op and the arguments, at: the
\* position in the body, ret: the value being returned, pre: the book as it
\* was when the thread's lock_guard was constructed, during: the threads
\* whose current call overlaps this one, fresh: the call's id was not in
\* the order table when the call began, stats: what get_stats returns.
\* In a call of the OrderBookManager: symbol, book: the OrderBook* obtained
\* (0: none), symbols: what get_active_symbols returns.  todo: the lock
\* and unlock calls the thread still has to make on its way through a call.
\* states: the states of the object that have existed since the call began,
\* total: the sum get_total_pnl has got so far.
Idle ==
    [at |-> "idle", op |-> "none", id |-> 0, price |-> 0, quantity |-> 0,
     side |-> "BUY", ret |-> FALSE, pre |-> EmptyBook, during |-> {},
     fresh |-> FALSE, stats |-> NoStats,
     symbol |-> 0, book |-> 0, symbols |-> {}, todo |-> <<>>, states |-> {},
     total |-> 0]

\* ------------------------------------------------- a MemoryPool on its own
\* The initial_capacity a pool is constructed with.
InitialCapacities == {1, 2}

\* Position(symbol): a position with nothing on either leg (timestamps are
\* left out of the model).
Position(symbol) ==
    [symbol |-> symbol, long_quantity |-> 0, short_quantity |-> 0,
     avg_long_price |-> 0, avg_short_price |-> 0,
     realized_pnl |-> 0, unrealized_pnl |-> 0]

\* The number of Position slots in a freshly created mapped file.
MmapSlots == 1

\* MMapPositionTracker::init_mmap on a new file: every byte is zero.
init_mmap == [i \in 1..MmapSlots |-> Position(0)]

\* MemoryPool(initial_capacity): capacity_(initial_capacity), then
\* allocate_chunk(initial_capacity): one chunk of that size, and
\* capacity_ += size.  peak_usage_(0).
MemoryPool(initial_capacity) ==
    /\ chunks_ = <<initial_capacity>>
    /\ capacity_ = initial_capacity + initial_capacity
    /\ allocated_count_ = 0
    /\ free_list_ = <<>>
    /\ peak_usage_ = 0
    /\ live = {}
    /\ allocate_calls = 0
    /\ deallocate_calls = 0

Install(b) ==
    /\ orders_' = b.orders_
    /\ bids_' = b.bids_
    /\ asks_' = b.asks_
    /\ order_mem' = b.order_mem
    /\ order_free' = b.order_free
    /\ level_mem' = b.level_mem
    /\ level_free' = b.level_free

\* The book, the registry and the threads after construction.
\* ScenarioResult as run_scenario initialises it (lines 19-24); line is the
\* line number its error_message carries, 0 for none.
ScenarioResult ==
    [passed |-> TRUE, line |-> 0, exception |-> FALSE,
     orders_processed |-> 0, trades_executed |-> 0]

\* No run_scenario call yet: at is the position in the call, commands the
\* vector parse_scenario_file returned, i the loop's position in it and
\* rejected the lines whose command execute_command returned false for.
NotRunning ==
    [at |-> "idle", commands |-> <<>>, i |-> 1, result |-> ScenarioResult,
     rejected |-> {}, total_scenarios |-> 0, passed_scenarios |-> 0]

\* ITCHParser::Stats, zero-initialised.
NoMessages ==
    [total_messages |-> 0, add_orders |-> 0, executions |-> 0, cancels |-> 0,
     deletes |-> 0, replaces |-> 0, trades |-> 0, errors |-> 0]

\* No parse_file call yet: unread is what the stream still holds, buffer
\* the block read last, offset the position in it.
Closed == [at |-> "idle", unread |-> <<>>, buffer |-> <<>>, offset |-> 0]

Constructed ==
    /\ orders_ = <<>>
    /\ bids_ = <<>>
    /\ asks_ = <<>>
    /\ order_mem = <<>>
    /\ order_free = <<>>
    /\ level_mem = <<>>
    /\ level_free = <<>>
    /\ crashed = FALSE
    /\ stale_erase = FALSE
    /\ call = [op |-> "none", ret |-> FALSE]
    /\ nops = 0
    /\ pc = [t \in Threads |-> Idle]
    /\ owner = [m \in Mutexes |-> 0]
    /\ order_books_ = <<>>
    /\ heap = <<>>
    /\ seen = {}
    /\ positions_ = <<>>
    /\ trade_history_ = <<>>
    /\ mmap_ = init_mmap
    /\ matching_enabled_ = FALSE
    /\ script = <<>>
    /\ run = NotRunning
    /\ symbol_mapping_ = <<>>
    /\ next_symbol_id_ = 1
    /\ stats_ = NoMessages
    /\ file = Closed

Init == Constructed /\ MemoryPool(MinOf(InitialCapacities))

\* For the pool on its own: any initial capacity.
InitPools == Constructed /\ \E initial_capacity \in InitialCapacities : MemoryPool(initial_capacity)

CanCall(max) == ~crashed /\ nops < max

AddOrder(max) ==
    /\ CanCall(max)
    /\ \E id \in OrderIds, p \in Prices, q \in Quantities, s \in Sides :
         LET r == add_order(Book, id, p, q, s) IN
         /\ Install(r.b)
         /\ call' = [op |-> "add_order", ret |-> r.ret]
    /\ nops' = nops + 1
    /\ UNCHANGED <<crashed, stale_erase, outsideBook>>

CancelOrder(max) ==
    /\ CanCall(max)
    /\ \E id \in OrderIds, q \in Quantities :
         LET r == cancel_order(Book, id, q) IN
         /\ Install(r.b)
         /\ call' = [op |-> "cancel_order", ret |-> r.ret]
    /\ nops' = nops + 1
    /\ UNCHANGED <<crashed, stale_erase, outsideBook>>

ModifyOrder(max) ==
    /\ CanCall(max)
    /\ \E id \in OrderIds, p \in Prices, q \in Quantities :
         LET r == modify_order(Book, id, p, q) IN
         /\ Install(r.b)
         /\ call' = [op |-> "modify_order", ret |-> r.ret]
    /\ nops' = nops + 1
    /\ UNCHANGED <<crashed, stale_erase, outsideBook>>

ExecuteTrade(max) ==
    /\ CanCall(max)
    /\ \E p \in Prices, q \in Quantities, s \in Sides :
         \E r \in execute_trade(Book, p, q, s) :
           /\ Install(r.b)
           /\ call' = [op |-> "execute_trade", ret |-> r.ret]
           /\ crashed' = r.crashed
           /\ stale_erase' = (stale_erase \/ r.stale)
    /\ nops' = nops + 1
    /\ UNCHANGED outsideBook

Next ==
    \/ AddOrder(MaxOps)
    \/ CancelOrder(MaxOps)
    \/ ModifyOrder(MaxOps)
    \/ ExecuteTrade(MaxOps)

NextDeep ==
    \/ AddOrder(MaxOpsDeep)
    \/ CancelOrder(MaxOpsDeep)
    \/ ModifyOrder(MaxOpsDeep)
    \/ ExecuteTrade(MaxOpsDeep)

Spec == Init /\ [][Next]_vars

\* A book that only takes and drops quotes, at any Price an order may have:
\* negative, zero, positive.
PlaceQuote ==
    /\ CanCall(MaxQuoteOps)
    /\ \E id \in OrderIds, p \in QuotePrices, q \in QuoteQuantities, s \in Sides :
         LET r == add_order(Book, id, p, q, s) IN
         /\ Install(r.b)
         /\ call' = [op |-> "add_order", ret |-> r.ret]
    /\ nops' = nops + 1
    /\ UNCHANGED <<crashed, stale_erase, outsideBook>>

DropQuote ==
    /\ CanCall(MaxQuoteOps)
    /\ \E id \in OrderIds :
         LET r == cancel_order(Book, id, 0) IN
         /\ Install(r.b)
         /\ call' = [op |-> "cancel_order", ret |-> r.ret]
    /\ nops' = nops + 1
    /\ UNCHANGED <<crashed, stale_erase, outsideBook>>

NextQuotes == PlaceQuote \/ DropQuote

SpecQuotes == Init /\ [][NextQuotes]_vars

SpecDeep == Init /\ [][NextDeep]_vars

\* ------------------------------------------------- several calling threads
\* Every public operation of the book starts with
\*     std::lock_guard<std::mutex> lock(mutex_);
\* and holds the guard until it returns.  A call is taken in steps: the
\* caller enters (Invoke), constructs the guard (Lock), runs the body (Find
\* and Act for add_order, Act for the others) and leaves, which destroys the
\* guard (Unlock).
\* Prices and quantities the threads pass.
CallPrices == {1}
CallQuantities == {1, 2}

\* The calls a thread can make on the book as it stands.
BookCalls ==
    {[Idle EXCEPT !.op = "add_order", !.id = id, !.price = p, !.quantity = q, !.side = s] :
        id \in OrderIds, p \in CallPrices, q \in CallQuantities, s \in Sides}
    \cup {[Idle EXCEPT !.op = "cancel_order", !.id = id, !.quantity = q] :
        id \in OrderIds, q \in CallQuantities}
    \cup {[Idle EXCEPT !.op = "modify_order", !.id = id, !.price = p, !.quantity = q] :
        id \in OrderIds, p \in CallPrices, q \in CallQuantities}
    \cup {[Idle EXCEPT !.op = "execute_trade", !.price = p, !.quantity = q, !.side = s] :
        p \in CallPrices, q \in CallQuantities, s \in Sides}

\* Positions of a thread that is in no call: before its first, after one
\* that returned, after one that threw.
Outside == {"idle", "returned", "threw"}

\* The threads inside a call.
Running == {t \in Threads : pc[t].at \notin Outside}

\* std::mutex::lock as seen by a thread that does not hold the mutex: it
\* returns once nobody holds it.
mutex_lock_Absent(holder) == TRUE
mutex_lock(holder) == holder = 0

\* The body of call c run on book b in one piece: the outcomes
\* [b, ret, crashed, stale].
Outcome(r) == [b |-> r.b, ret |-> r.ret, crashed |-> FALSE, stale |-> FALSE]

Serial(b, c) ==
    CASE c.op = "add_order" ->
           {Outcome(add_order(b, c.id, c.price, c.quantity, c.side))}
      [] c.op = "cancel_order" ->
           {Outcome(cancel_order(b, c.id, c.quantity))}
      [] c.op = "modify_order" ->
           {Outcome(modify_order(b, c.id, c.price, c.quantity))}
      [] c.op = "execute_trade" ->
           execute_trade(b, c.price, c.quantity, c.side)

\* What is left of the body once add_order has passed its duplicate check.
Rest(b, c) ==
    IF c.op = "add_order"
    THEN {Outcome(AcceptOrder(b, c.id, c.price, c.quantity, c.side))}
    ELSE Serial(b, c)

Move(t, c) == pc' = [pc EXCEPT ![t] = c]

Invoke(t, max) ==
    /\ CanCall(max)
    /\ pc[t].at \in Outside
    /\ \E c \in BookCalls :
         pc' = [u \in Threads |->
                  IF u = t
                  THEN [c EXCEPT !.at = "lock", !.during = Running \ {t},
                                 !.fresh = (c.id \notin DOMAIN orders_)]
                  ELSE [pc[u] EXCEPT !.during = @ \ {t}]]
    /\ nops' = nops + 1
    /\ UNCHANGED <<orders_, bids_, asks_, order_mem, order_free, level_mem,
                   level_free, crashed, stale_erase, call, owner>>
    /\ UNCHANGED elsewhere

Lock(t) ==
    /\ ~crashed
    /\ pc[t].at = "lock"
    /\ mutex_lock(owner["OrderBook"])
    /\ owner' = [owner EXCEPT !["OrderBook"] = t]
    /\ Move(t, [pc[t] EXCEPT !.pre = Book,
                             !.at = CASE pc[t].op = "add_order" -> "find"
                                      [] pc[t].op = "get_stats" -> "stats"
                                      [] OTHER -> "act"])
    /\ UNCHANGED <<orders_, bids_, asks_, order_mem, order_free, level_mem,
                   level_free, crashed, stale_erase, call, nops>>
    /\ UNCHANGED elsewhere

\* add_order, lines 19-23: the duplicate check.
Find(t) ==
    /\ ~crashed
    /\ pc[t].at = "find"
    /\ IF find_order(Book, pc[t].id) # 0
       THEN Move(t, [pc[t] EXCEPT !.at = "unlock", !.ret = FALSE])
       ELSE Move(t, [pc[t] EXCEPT !.at = "act"])
    /\ UNCHANGED <<orders_, bids_, asks_, order_mem, order_free, level_mem,
                   level_free, crashed, stale_erase, call, nops, owner>>
    /\ UNCHANGED elsewhere

Act(t) ==
    /\ ~crashed
    /\ pc[t].at = "act"
    /\ \E r \in Rest(Book, pc[t]) :
         /\ Install(r.b)
         /\ crashed' = r.crashed
         /\ stale_erase' = (stale_erase \/ r.stale)
         /\ Move(t, [pc[t] EXCEPT !.at = "unlock", !.ret = r.ret])
    /\ UNCHANGED <<call, nops, owner, elsewhere>>

\* ~lock_guard, then the return to the caller.
Unlock(t) ==
    /\ ~crashed
    /\ pc[t].at = "unlock"
    /\ owner' = [owner EXCEPT !["OrderBook"] = 0]
    /\ Move(t, [pc[t] EXCEPT !.at = "returned"])
    /\ UNCHANGED <<orders_, bids_, asks_, order_mem, order_free, level_mem,
                   level_free, crashed, stale_erase, call, nops>>
    /\ UNCHANGED elsewhere

NextThreads ==
    \E t \in Threads :
        \/ Invoke(t, MaxCalls)
        \/ Lock(t)
        \/ Find(t)
        \/ Act(t)
        \/ Unlock(t)

SpecThreads == Init /\ [][NextThreads]_vars

\* ------------------------------------------------------ OrderBookManager
\* The registry: order_books_ maps a symbol to the OrderBook it owns, an
\* OrderBook* is the number of the object in heap.  get_order_book and
\* get_active_symbols hold the manager's mutex_ from their first statement
\* to their return; add_order, cancel_order, modify_order and execute_trade
\* (lines 470-502) call get_order_book and then the book ("dispatch").
Symbols == {1, 2}
RegistryOps == {"get_order_book", "dispatch", "get_active_symbols"}

\* order_books_.find(symbol): the book, 0 for end().
order_books_find_Missing(books, symbol) == 0
order_books_find(books, symbol) ==
    IF symbol \in DOMAIN books THEN books[symbol] ELSE 0

RegistryInvoke(t) ==
    /\ CanCall(MaxLookups)
    /\ pc[t].at \in Outside
    /\ \E op \in RegistryOps, symbol \in Symbols :
         /\ op = "get_active_symbols" => symbol = MinOf(Symbols)
         /\ pc' = [u \in Threads |->
                     IF u = t
                     THEN [Idle EXCEPT !.op = op, !.at = "lock", !.symbol = symbol,
                                       !.during = Running \ {t}]
                     ELSE [pc[u] EXCEPT !.during = @ \ {t}]]
    /\ nops' = nops + 1
    /\ UNCHANGED <<bookVars, crashed, stale_erase, call, owner, elsewhere>>

\* Lines 455 and 514: std::lock_guard<std::mutex> lock(mutex_).
RegistryLock(t) ==
    /\ pc[t].at = "lock"
    /\ pc[t].op \in RegistryOps
    /\ mutex_lock(owner["OrderBookManager"])
    /\ owner' = [owner EXCEPT !["OrderBookManager"] = t]
    /\ Move(t, [pc[t] EXCEPT !.at = IF pc[t].op = "get_active_symbols"
                                     THEN "snapshot" ELSE "lookup"])
    /\ UNCHANGED <<bookVars, crashed, stale_erase, call, nops, elsewhere>>

\* Lines 457-461.
Lookup(t) ==
    /\ pc[t].at = "lookup"
    /\ LET it == order_books_find(order_books_, pc[t].symbol) IN
       IF it # 0
       THEN Move(t, [pc[t] EXCEPT !.at = "unlock", !.book = it])
       ELSE Move(t, [pc[t] EXCEPT !.at = "create"])
    /\ UNCHANGED <<bookVars, crashed, stale_erase, call, nops, owner, elsewhere>>

\* Lines 464-465: make_unique<OrderBook>(symbol), ptr = order_book.get().
Create(t) ==
    /\ pc[t].at = "create"
    /\ heap' = Append(heap, [symbol |-> pc[t].symbol, alive |-> TRUE])
    /\ Move(t, [pc[t] EXCEPT !.at = "insert", !.book = Len(heap) + 1])
    /\ UNCHANGED <<bookVars, crashed, stale_erase, call, nops, owner,
                   order_books_, seen, poolVars, trackerVars, scenarioVars, driverVars>>

\* Line 466: order_books_[symbol] = std::move(order_book).  Assigning to an
\* entry that holds a book destroys that book.
Insert(t) ==
    /\ pc[t].at = "insert"
    /\ LET old == order_books_find(order_books_, pc[t].symbol) IN
       heap' = IF old # 0 /\ old # pc[t].book
               THEN [heap EXCEPT ![old].alive = FALSE] ELSE heap
    /\ order_books_' = MapPut(order_books_, pc[t].symbol, pc[t].book)
    /\ Move(t, [pc[t] EXCEPT !.at = "unlock"])
    /\ UNCHANGED <<bookVars, crashed, stale_erase, call, nops, owner,
                   seen, poolVars, trackerVars, scenarioVars, driverVars>>

\* Lines 516-524: the keys of order_books_.
Snapshot(t) ==
    /\ pc[t].at = "snapshot"
    /\ seen' = seen \cup DOMAIN order_books_
    /\ Move(t, [pc[t] EXCEPT !.at = "unlock", !.symbols = DOMAIN order_books_])
    /\ UNCHANGED <<bookVars, crashed, stale_erase, call, nops, owner,
                   order_books_, heap, poolVars, trackerVars, scenarioVars, driverVars>>

\* The return destroys the lock_guard; a dispatcher goes on to the book.
RegistryUnlock(t) ==
    /\ pc[t].at = "unlock"
    /\ pc[t].op \in RegistryOps
    /\ owner' = [owner EXCEPT !["OrderBookManager"] = 0]
    /\ Move(t, [pc[t] EXCEPT !.at = IF pc[t].op = "dispatch"
                                     THEN "dispatch" ELSE "returned"])
    /\ UNCHANGED <<bookVars, crashed, stale_erase, call, nops, elsewhere>>

\* Lines 473, 483, 492, 501: the call on the book through the pointer.  A
\* pointer to a destroyed book is a use after free.
Dispatch(t) ==
    /\ pc[t].at = "dispatch"
    /\ crashed' = ~heap[pc[t].book].alive
    /\ Move(t, [pc[t] EXCEPT !.at = "returned"])
    /\ UNCHANGED <<bookVars, stale_erase, call, nops, owner, elsewhere>>

NextRegistry ==
    \E t \in Threads :
        \/ RegistryInvoke(t)
        \/ RegistryLock(t)
        \/ Lookup(t)
        \/ Create(t)
        \/ Insert(t)
        \/ Snapshot(t)
        \/ RegistryUnlock(t)
        \/ Dispatch(t)

SpecRegistry == Init /\ [][NextRegistry]_vars

\* ------------------------------------------------- MemoryPool<T> on its own
\* A handle (T*) is the chunk and the index in it, counted from 0 as in the
\* source.  chunks_[k] is the number of elements of the k-th chunk.
InChunk(h) ==
    /\ h.chunk \in DOMAIN chunks_
    /\ 0 <= h.index
    /\ h.index < chunks_[h.chunk]

\* &chunks_.back()[n] with n outside the array is undefined behaviour: the
\* run is stopped, or goes on with the stray address.
StrayOutcomes == {"abort", "continue"}

\* MemoryPool::allocate.
Allocate ==
    /\ CanCall(MaxPoolOps)
    /\ IF Len(free_list_) > 0
       THEN LET ptr == free_list_[Len(free_list_)] IN
            /\ free_list_' = SubSeq(free_list_, 1, Len(free_list_) - 1)
            /\ live' = live \cup {ptr}
            /\ call' = [op |-> "allocate", ret |-> ptr]
            /\ UNCHANGED <<chunks_, capacity_, allocated_count_, peak_usage_, crashed>>
       ELSE LET grow == allocated_count_ >= capacity_
                new_capacity == capacity_ * 2
                chunks == IF grow THEN Append(chunks_, new_capacity) ELSE chunks_
                ptr == [chunk |-> Len(chunks), index |-> allocated_count_]
            IN  /\ chunks_' = chunks
                /\ capacity_' = IF grow THEN capacity_ + new_capacity ELSE capacity_
                /\ allocated_count_' = allocated_count_ + 1
                /\ peak_usage_' = MaxOf({peak_usage_, allocated_count_ + 1})
                /\ live' = live \cup {ptr}
                /\ call' = [op |-> "allocate", ret |-> ptr]
                /\ IF ptr.index < chunks[ptr.chunk]
                   THEN crashed' = FALSE
                   ELSE \E o \in StrayOutcomes : crashed' = (o = "abort")
                /\ UNCHANGED free_list_
    /\ allocate_calls' = allocate_calls + 1
    /\ nops' = nops + 1
    /\ UNCHANGED deallocate_calls
    /\ UNCHANGED <<bookVars, stale_erase, pc, owner, registryVars, trackerVars, scenarioVars, driverVars>>

\* MemoryPool::deallocate, of a handle that is out and so not yet returned.
Deallocate ==
    /\ CanCall(MaxPoolOps)
    /\ \E ptr \in live :
         /\ free_list_' = Append(free_list_, ptr)
         /\ live' = live \ {ptr}
         /\ call' = [op |-> "deallocate", ret |-> ptr]
    /\ deallocate_calls' = deallocate_calls + 1
    /\ nops' = nops + 1
    /\ UNCHANGED <<bookVars, crashed, stale_erase, pc, owner, registryVars,
                   trackerVars, scenarioVars, driverVars, chunks_, capacity_, allocated_count_, peak_usage_, allocate_calls>>

\* MemoryPool::get_stats: the PoolStats it returns.
PoolStats ==
    [total_allocated |-> allocated_count_,
     total_freed |-> Len(free_list_),
     current_usage |-> allocated_count_ - Len(free_list_),
     peak_usage |-> peak_usage_,
     allocation_count |-> allocated_count_,
     free_count |-> Len(free_list_)]

NextPool == Allocate \/ Deallocate

SpecPool == InitPools /\ [][NextPool]_vars

\* ------------------------------------------------- the locks along a call
\* A call seen as the lock() and unlock() calls it makes, in order.  Which
\* branch a call takes depends on the data; every branch is a path.
\* Guarded(m, inner): a function body that holds a lock_guard on m around
\* inner.
Guarded(m, inner) == <<<<"lock", m>>>> \o inner \o <<<<"unlock", m>>>>

\* MemoryPool::allocate and deallocate (memory_pool.hpp, lines 40 and 67).
PoolCall(pool) == Guarded(pool, <<>>)

\* OrderBook::add_order: duplicate; new order at a known level; new order
\* and new level.
add_order_paths ==
    {Guarded("OrderBook", <<>>),
     Guarded("OrderBook", PoolCall("order_pool_")),
     Guarded("OrderBook", PoolCall("order_pool_") \o PoolCall("level_pool_"))}

\* OrderBook::cancel_order: refused or partial; order removed; order and
\* its emptied level removed.
cancel_order_paths ==
    {Guarded("OrderBook", <<>>),
     Guarded("OrderBook", PoolCall("order_pool_")),
     Guarded("OrderBook", PoolCall("level_pool_") \o PoolCall("order_pool_"))}

\* OrderBook::modify_order: refused or known level; new level.
modify_order_paths ==
    {Guarded("OrderBook", <<>>),
     Guarded("OrderBook", PoolCall("level_pool_"))}

\* OrderBook::execute_trade: nothing filled; an order filled; an order
\* filled and its level released, once or (lines 168 and 226) twice.
execute_trade_paths ==
    {Guarded("OrderBook", <<>>),
     Guarded("OrderBook", PoolCall("order_pool_")),
     Guarded("OrderBook", PoolCall("order_pool_") \o PoolCall("level_pool_")),
     Guarded("OrderBook", PoolCall("order_pool_") \o PoolCall("level_pool_")
                              \o PoolCall("level_pool_"))}

\* OrderBookManager::get_order_book, and the dispatchers: get_order_book
\* has returned before the book is called.
get_order_book_path == Guarded("OrderBookManager", <<>>)

Dispatched(inner) == get_order_book_path \o inner

\* ScenarioRunner::execute_add_market_buy, lines 407-408: the trade, then
\* PositionTracker::record_trade.
TradeThenRecord_UnderTracker(trade) == Guarded("PositionTracker", trade)
TradeThenRecord(trade) == trade \o Guarded("PositionTracker", <<>>)

\* Lines 402-410: get_order_book, get_best_ask and, when there is an ask,
\* the trade.
execute_add_market_buy_paths ==
    LET quote == get_order_book_path \o Guarded("OrderBook", <<>>) IN
    {quote} \cup {quote \o TradeThenRecord(Dispatched(p)) : p \in execute_trade_paths}

\* The entry points and their paths.
Paths ==
    [add_order |-> {Dispatched(p) : p \in add_order_paths},
     cancel_order |-> {Dispatched(p) : p \in cancel_order_paths},
     modify_order |-> {Dispatched(p) : p \in modify_order_paths},
     execute_trade |-> {Dispatched(p) : p \in execute_trade_paths},
     get_active_symbols |-> {get_order_book_path},
     execute_add_market_buy |-> execute_add_market_buy_paths,
     record_trade |-> {Guarded("PositionTracker", <<>>)}]

Enter(t) ==
    /\ CanCall(MaxEntries)
    /\ pc[t].at \in Outside
    /\ \E op \in DOMAIN Paths : \E path \in Paths[op] :
         Move(t, [Idle EXCEPT !.op = op, !.at = "path", !.todo = path])
    /\ nops' = nops + 1
    /\ UNCHANGED <<bookVars, crashed, stale_erase, call, owner, elsewhere>>

\* std::mutex::lock: the caller waits until nobody holds the mutex.
Acquire(t) ==
    /\ pc[t].at = "path"
    /\ pc[t].todo # <<>>
    /\ Head(pc[t].todo)[1] = "lock"
    /\ mutex_lock(owner[Head(pc[t].todo)[2]])
    /\ owner' = [owner EXCEPT ![Head(pc[t].todo)[2]] = t]
    /\ Move(t, [pc[t] EXCEPT !.todo = Tail(@)])
    /\ UNCHANGED <<bookVars, crashed, stale_erase, call, nops, elsewhere>>

Release(t) ==
    /\ pc[t].at = "path"
    /\ pc[t].todo # <<>>
    /\ Head(pc[t].todo)[1] = "unlock"
    /\ owner' = [owner EXCEPT ![Head(pc[t].todo)[2]] = 0]
    /\ Move(t, [pc[t] EXCEPT !.todo = Tail(@)])
    /\ UNCHANGED <<bookVars, crashed, stale_erase, call, nops, elsewhere>>

Leave(t) ==
    /\ pc[t].at = "path"
    /\ pc[t].todo = <<>>
    /\ Move(t, [pc[t] EXCEPT !.at = "returned"])
    /\ UNCHANGED <<bookVars, crashed, stale_erase, call, nops, owner, elsewhere>>

NextLocks ==
    \E t \in Threads :
        \/ Enter(t)
        \/ Acquire(t)
        \/ Release(t)
        \/ Leave(t)

SpecLocks == Init /\ [][NextLocks]_vars

\* ------------------------------------------------------------- get_stats
\* The Stats that get_stats builds (lines 343-353).
get_stats(b) ==
    [total_orders |-> Cardinality(DOMAIN b.orders_),
     active_orders |-> Cardinality({id \in DOMAIN b.orders_ :
                                      b.order_mem[b.orders_[id]].status = "ACTIVE"}),
     bid_levels |-> Cardinality(DOMAIN b.bids_),
     ask_levels |-> Cardinality(DOMAIN b.asks_),
     best_bid |-> get_best_bid(b)[1],
     best_ask |-> get_best_ask(b)[1],
     mid_price |-> get_mid_price(b),
     spread |-> get_spread(b)]

InvokeStats(t, max) ==
    /\ CanCall(max)
    /\ pc[t].at \in Outside
    /\ pc' = [u \in Threads |->
                IF u = t
                THEN [Idle EXCEPT !.op = "get_stats", !.at = "lock",
                                  !.during = Running \ {t}]
                ELSE [pc[u] EXCEPT !.during = @ \ {t}]]
    /\ nops' = nops + 1
    /\ UNCHANGED <<orders_, bids_, asks_, order_mem, order_free, level_mem,
                   level_free, crashed, stale_erase, call, owner>>
    /\ UNCHANGED elsewhere

\* Line 340: with its own lock_guard alive (line 338, taken by Lock),
\* get_stats calls get_best_bid(), whose first statement (line 240)
\* constructs a second lock_guard on the same mutex_.
Relock(t) ==
    /\ ~crashed
    /\ pc[t].at = "stats"
    /\ Move(t, [pc[t] EXCEPT !.at = "relock"])
    /\ UNCHANGED <<orders_, bids_, asks_, order_mem, order_free, level_mem,
                   level_free, crashed, stale_erase, call, nops, owner>>
    /\ UNCHANGED elsewhere

\* std::mutex::lock() called by the thread that owns the mutex is undefined
\* behaviour.  What builds make of it: the thread blocks on itself for ever;
\* lock() throws std::system_error (resource_deadlock_would_occur), which
\* unwinds get_stats and releases the outer guard; or, where locking is a
\* no-op, the inner guard "locks", get_best_bid returns and the inner
\* guard's destructor unlocks the mutex the outer guard still counts on.
RelockOutcomes == {"deadlock", "system_error", "unguarded"}

Relocked(t) ==
    /\ ~crashed
    /\ pc[t].at = "relock"
    /\ owner["OrderBook"] = t
    /\ \E o \in RelockOutcomes :
         CASE o = "deadlock" ->
                /\ Move(t, [pc[t] EXCEPT !.at = "blocked"])
                /\ UNCHANGED owner
           [] o = "system_error" ->
                /\ Move(t, [pc[t] EXCEPT !.at = "threw"])
                /\ owner' = [owner EXCEPT !["OrderBook"] = 0]
           [] o = "unguarded" ->
                /\ Move(t, [pc[t] EXCEPT !.at = "unguarded"])
                /\ owner' = [owner EXCEPT !["OrderBook"] = 0]
    /\ UNCHANGED <<orders_, bids_, asks_, order_mem, order_free, level_mem,
                   level_free, crashed, stale_erase, call, nops>>
    /\ UNCHANGED elsewhere

\* Lines 341-353 without the guard: get_best_ask, get_mid_price and
\* get_spread each lock and unlock mutex_ themselves, then get_stats returns.
Finish(t) ==
    /\ ~crashed
    /\ pc[t].at = "unguarded"
    /\ mutex_lock(owner["OrderBook"])
    /\ Move(t, [pc[t] EXCEPT !.at = "returned", !.stats = get_stats(Book)])
    /\ UNCHANGED <<orders_, bids_, asks_, order_mem, order_free, level_mem,
                   level_free, crashed, stale_erase, call, nops, owner>>
    /\ UNCHANGED elsewhere

\* What a thread does once it is in a call.
Step(t) ==
    \/ Lock(t)
    \/ Find(t)
    \/ Act(t)
    \/ Unlock(t)
    \/ Relock(t)
    \/ Relocked(t)
    \/ Finish(t)

NextStats ==
    \E t \in Threads :
        \/ Invoke(t, MaxCalls)
        \/ InvokeStats(t, MaxCalls)
        \/ Step(t)

SpecStats == Init /\ [][NextStats]_vars

\* The scheduler runs every thread that can take a step.
FairSpecStats ==
    Init /\ [][NextStats]_vars /\ \A t \in Threads : WF_vars(Step(t))

\* ------------------------------------------------------------ observations
\* The last public call has returned (the process was not terminated in it).
Returned == ~crashed

IndexOf(side) == IF side = "BUY" THEN bids_ ELSE asks_

\* The PriceLevel record stored under price p in the index of a side.
LevelAt(side, p) == level_mem[IndexOf(side)[p]]

\* The pooled order records the order table refers to, and the active ones.
TableSlots == {orders_[id] : id \in DOMAIN orders_}
ActiveSlots == {s \in TableSlots : order_mem[s].status = "ACTIVE"}

\* The active orders resting at a price on a side.
Resident(side, p) ==
    {s \in ActiveSlots : order_mem[s].side = side /\ order_mem[s].price = p}

OnSide(side) == {s \in ActiveSlots : order_mem[s].side = side}

RECURSIVE SumRemaining(_)
SumRemaining(S) ==
    IF S = {} THEN 0
    ELSE LET s == CHOOSE x \in S : TRUE
         IN  Remaining(order_mem[s]) + SumRemaining(S \ {s})

RECURSIVE SumTotals(_, _)
SumTotals(side, P) ==
    IF P = {} THEN 0
    ELSE LET p == CHOOSE x \in P : TRUE
         IN  LevelAt(side, p).total_quantity + SumTotals(side, P \ {p})

\* The index of a side after the step.
IndexAfter(side) == IF side = "BUY" THEN bids_' ELSE asks_'

\* The book after the step, as one value.
BookAfter ==
    [orders_ |-> orders_', bids_ |-> bids_', asks_ |-> asks_',
     order_mem |-> order_mem', order_free |-> order_free',
     level_mem |-> level_mem', level_free |-> level_free']

\* The step is the call named, with these arguments.
IsAddOrder(id, p, q, s) ==
    /\ call'.op = "add_order"
    /\ add_order(Book, id, p, q, s) = [b |-> BookAfter, ret |-> call'.ret]

IsCancelOrder(id, q) ==
    /\ call'.op = "cancel_order"
    /\ cancel_order(Book, id, q) = [b |-> BookAfter, ret |-> call'.ret]

IsModifyOrder(id, p, q) ==
    /\ call'.op = "modify_order"
    /\ modify_order(Book, id, p, q) = [b |-> BookAfter, ret |-> call'.ret]

IsExecuteTrade(p, q, s) ==
    /\ call'.op = "execute_trade"
    /\ \E r \in execute_trade(Book, p, q, s) :
          r.b = BookAfter /\ r.ret = call'.ret /\ r.crashed = crashed'

\* No price of the bid index reaches a price of the ask index.
Uncrossed(bids, asks) == \A pb \in DOMAIN bids, pa \in DOMAIN asks : pb < pa

\* A new order at price p on a side stays clear of the other side's prices.
StaysClear(bids, asks, side, p) ==
    IF side = "BUY" THEN \A pa \in DOMAIN asks : p < pa
    ELSE \A pb \in DOMAIN bids : pb < p

\* What an accepted order at price p on a side does to the two indexes: its
\* price is in the index of its side, no price left either index, and the
\* book is uncrossed afterwards exactly when it was uncrossed before and p
\* stays clear of the other side.
RestsAtItsPrice(side, p) ==
    /\ DOMAIN IndexAfter(side) = DOMAIN IndexOf(side) \cup {p}
    /\ DOMAIN IndexAfter(Victim(side)) = DOMAIN IndexOf(Victim(side))
    /\ Uncrossed(bids_', asks_')
         <=> (Uncrossed(bids_, asks_) /\ StaysClear(bids_, asks_, side, p))

\* An aggressor with limit price accepts a level price.
Acceptable(side, price, level_price) ==
    IF side = "BUY" THEN level_price <= price ELSE level_price >= price

\* The level totals a price-ordered sweep leaves: from the best of the keys
\* not yet visited, take Min2(remaining, total) of each level, drop a level
\* left with nothing, stop when nothing remains or at the first price the
\* aggressor does not accept. totals maps each price still indexed to its
\* total; the result is [totals, remaining].
RECURSIVE Sweep(_, _, _, _, _)
Sweep(totals, keys, side, price, remaining) ==
    IF keys = {} \/ remaining = 0
    THEN [totals |-> totals, remaining |-> remaining]
    ELSE LET k == IF side = "BUY" THEN MinOf(keys) ELSE MaxOf(keys)
             take == Min2(remaining, totals[k])
         IN  IF ~Acceptable(side, price, k)
             THEN [totals |-> totals, remaining |-> remaining]
             ELSE Sweep(IF totals[k] = take THEN MapErase(totals, k)
                        ELSE [totals EXCEPT ![k] = @ - take],
                        keys \ {k}, side, price, remaining - take)

\* The totals of the levels of a side, by price.
Totals(side) == [p \in DOMAIN IndexOf(side) |-> LevelAt(side, p).total_quantity]

\* What the level totals of a side add up to.
Depth(side) == SumTotals(side, DOMAIN IndexOf(side))

\* The victim side has no level at a price the aggressor accepts: it is
\* empty or its best price is strictly worse than the limit.
NothingAcceptable(side, price) ==
    LET keys == DOMAIN IndexOf(Victim(side)) IN
    \/ keys = {}
    \/ ~Acceptable(side, price, IF side = "BUY" THEN MinOf(keys) ELSE MaxOf(keys))

\* The ids of the active orders of a side.
ActiveIds(side) ==
    {id \in DOMAIN orders_ : /\ order_mem[orders_[id]].status = "ACTIVE"
                             /\ order_mem[orders_[id]].side = side}

\* ------------------------------------------------------------------ claims
\* C1: after every public operation that returned, each PriceLevel stored in
\* the bid or ask index has total_quantity equal to the sum of
\* quantity - filled_quantity over the active orders resting at that price
\* and side, and per side the level totals add up to the remaining
\* quantities of the active orders.
C1_LevelTotalIsSumOfRemaining ==
    Returned =>
        \A side \in Sides :
            /\ \A p \in DOMAIN IndexOf(side) :
                  LevelAt(side, p).total_quantity = SumRemaining(Resident(side, p))
            /\ SumTotals(side, DOMAIN IndexOf(side)) = SumRemaining(OnSide(side))

\* A book that returned from every call, in which execute_trade never erased
\* a level twice and no pooled order record has a zero quantity or a
\* filled_quantity above its quantity: the claims below that fail on such a
\* book fail without the help of any other defect.
OrdinaryBook ==
    /\ Returned
    /\ ~stale_erase
    /\ \A i \in 1..Len(order_mem) :
          /\ order_mem[i].quantity > 0
          /\ order_mem[i].filled_quantity <= order_mem[i].quantity

\* C2: the order table holds only active orders, each under its own id: an
\* order fully filled by execute_trade or fully cancelled is no longer in the
\* table (stated for an ordinary book).
C2_TableHoldsActiveOrders ==
    OrdinaryBook =>
        \A id \in DOMAIN orders_ :
            /\ order_mem[orders_[id]].status = "ACTIVE"
            /\ order_mem[orders_[id]].id = id

\* C3: after every public operation that returned, neither index contains a
\* PriceLevel whose total_quantity is 0 (stated for an ordinary book).
C3_NoEmptyLevelInIndex ==
    OrdinaryBook =>
        \A side \in Sides : \A p \in DOMAIN IndexOf(side) :
            LevelAt(side, p).total_quantity # 0

\* C4: after every public operation that returned, each indexed PriceLevel's
\* order_count is the number of active orders resting at that level (stated
\* for an ordinary book).
C4_OrderCountIsNumberOfOrders ==
    OrdinaryBook =>
        \A side \in Sides : \A p \in DOMAIN IndexOf(side) :
            LevelAt(side, p).order_count = Cardinality(Resident(side, p))

C6_SweepsInPriceOrder ==
    [][\A p \in Prices, q \in Quantities, s \in Sides :
         IsExecuteTrade(p, q, s) =>
            LET e == Sweep(Totals(Victim(s)), DOMAIN IndexOf(Victim(s)), s, p, q)
            IN  /\ ~crashed'
                /\ Totals(Victim(s))' = e.totals
                /\ Depth(Victim(s)) - Depth(Victim(s))' = q - e.remaining
      ]_vars

\* C7: every execute_trade returns, the remaining quantities of the orders
\* of the victim side went down by exactly what left the level totals of
\* that side, and the call returned true exactly when that is more than 0.
C7_FillsMatchLevelTotals ==
    [][\A p \in Prices, q \in Quantities, s \in Sides :
         IsExecuteTrade(p, q, s) =>
            LET consumed == Depth(Victim(s)) - Depth(Victim(s))'
            IN  /\ ~crashed'
                /\ SumRemaining(OnSide(Victim(s)))
                      - SumRemaining(OnSide(Victim(s)))' = consumed
                /\ call'.ret <=> consumed > 0
      ]_vars
\* C8: an execute_trade(price, qty, side) that returns has left the
\* aggressor's own side as it was (its index, its levels, its active
\* orders), has created no order and no level, and when the victim side was
\* empty or its best price strictly worse than the limit it returned false
\* and changed nothing at all.
C8_AggressorSideUntouched ==
    [][\A p \in Prices, q \in Quantities, s \in Sides :
         (IsExecuteTrade(p, q, s) /\ Returned') =>
            /\ IndexOf(s)' = IndexOf(s)
            /\ \A k \in DOMAIN IndexOf(s) : LevelAt(s, k)' = LevelAt(s, k)
            /\ \A id \in ActiveIds(s) :
                  /\ id \in DOMAIN orders_'
                  /\ order_mem'[orders_'[id]] = order_mem[orders_[id]]
            /\ DOMAIN orders_' \subseteq DOMAIN orders_
            /\ DOMAIN IndexOf(Victim(s))' \subseteq DOMAIN IndexOf(Victim(s))
            /\ NothingAcceptable(s, p) => (~call'.ret /\ BookAfter = Book)
      ]_vars
\* C9: add_order with an id already in the order table returns false and
\* leaves the table, both indexes and both pools as they were; with a fresh
\* id it returns true, the order is in the table, active, with
\* filled_quantity 0 and linked to the level stored under its price on its
\* side, and that level's total_quantity has grown by qty and its
\* order_count by 1 (as uint32_t values, from 0 for a level just created).
C9_AddOrderContract ==
    [][\A id \in OrderIds, p \in Prices, q \in Quantities, s \in Sides :
         IsAddOrder(id, p, q, s) =>
            IF id \in DOMAIN orders_
            THEN ~call'.ret /\ BookAfter = Book
            ELSE LET was == IF p \in DOMAIN IndexOf(s) THEN LevelAt(s, p)
                            ELSE DefaultLevel
                 IN  /\ call'.ret
                     /\ id \in DOMAIN orders_'
                     /\ p \in DOMAIN IndexOf(s)'
                     /\ order_mem'[orders_'[id]] =
                           [id |-> id, price |-> p, quantity |-> q,
                            filled_quantity |-> 0, side |-> s,
                            status |-> "ACTIVE", level |-> IndexOf(s)'[p]]
                     /\ LevelAt(s, p)'.total_quantity = UAdd(was.total_quantity, q)
                     /\ LevelAt(s, p)'.order_count = UAdd(was.order_count, 1)
      ]_vars

\* C9, witness: two orders were accepted at one price and rest there, and
\* the last call was an add_order refused for its id.
C9_Witness ==
    /\ Returned
    /\ call.op = "add_order" /\ ~call.ret
    /\ \E s \in Sides : \E p \in DOMAIN IndexOf(s) :
          /\ LevelAt(s, p).order_count = 2
          /\ Cardinality(Resident(s, p)) = 2
          /\ LevelAt(s, p).total_quantity = SumRemaining(Resident(s, p))
          /\ LevelAt(s, p).total_quantity > 0

\* C10: cancel_order(id, qty) on an active order returns true having removed
\* effective = remaining when qty is 0, else Min2(qty, remaining):
\* filled_quantity grew by effective and the total_quantity of the order's
\* level shrank by effective; when filled_quantity reached quantity the
\* order is unlinked, out of the order table and back in the pool, and its
\* level left the index exactly when its total reached zero; otherwise the
\* order is still active at the same level and the indexes are as before.
C10_CancelOrderContract ==
    [][\A id \in OrderIds, q \in Quantities :
         (/\ IsCancelOrder(id, q)
          /\ id \in DOMAIN orders_
          /\ order_mem[orders_[id]].status = "ACTIVE") =>
            LET slot == orders_[id]
                o == order_mem[slot]
                effective == IF q = 0 THEN Remaining(o) ELSE Min2(q, Remaining(o))
                total == level_mem'[o.level].total_quantity
            IN  /\ call'.ret
                /\ order_mem'[slot].filled_quantity = o.filled_quantity + effective
                /\ total = level_mem[o.level].total_quantity - effective
                /\ IF o.filled_quantity + effective >= o.quantity
                   THEN /\ order_mem'[slot].level = 0
                        /\ id \notin DOMAIN orders_'
                        /\ order_free' = Append(order_free, slot)
                        /\ IndexAfter(o.side) =
                              IF total = 0 THEN MapErase(IndexOf(o.side), o.price)
                              ELSE IndexOf(o.side)
                   ELSE /\ id \in DOMAIN orders_' /\ orders_'[id] = slot
                        /\ order_mem'[slot].status = "ACTIVE"
                        /\ order_mem'[slot].level = o.level
                        /\ bids_' = bids_ /\ asks_' = asks_
      ]_vars
\* C11: an accepted modify_order(id, new_price, new_qty) took the order's old
\* remaining quantity out of the level stored under its old price, kept the
\* order's id, side and filled_quantity (and its table entry), set price and
\* quantity to the new values and left the order linked to the level stored
\* under (new_price, side), whose total_quantity grew by
\* new_qty - filled_quantity (as uint32_t values); the levels at other
\* prices and the opposite side are as before.
C11_ModifyOrderContract ==
    [][\A id \in OrderIds, p \in Prices, q \in Quantities :
         (IsModifyOrder(id, p, q) /\ call'.ret) =>
            LET slot == orders_[id]
                o == order_mem[slot]
                side == o.side
                idx == IndexOf(side)
                opp == IndexOf(Victim(side))
                vacated == USub(LevelAt(side, o.price).total_quantity, Remaining(o))
                base == IF p = o.price THEN vacated
                        ELSE IF p \in DOMAIN idx THEN LevelAt(side, p).total_quantity
                        ELSE 0
            IN  /\ orders_' = orders_
                /\ o.price \in DOMAIN idx
                /\ DOMAIN IndexAfter(side) = DOMAIN idx \cup {p}
                /\ order_mem'[slot] = [o EXCEPT !.price = p, !.quantity = q,
                                                !.level = IndexAfter(side)[p]]
                /\ level_mem'[IndexAfter(side)[p]].total_quantity
                      = UAdd(base, USub(q, o.filled_quantity))
                /\ p # o.price =>
                      level_mem'[IndexAfter(side)[o.price]].total_quantity = vacated
                /\ \A k \in DOMAIN idx \ {p, o.price} :
                      level_mem'[IndexAfter(side)[k]] = level_mem[idx[k]]
                /\ DOMAIN IndexAfter(Victim(side)) = DOMAIN opp
                /\ \A k \in DOMAIN opp :
                      level_mem'[IndexAfter(Victim(side))[k]] = level_mem[opp[k]]
      ]_vars
\* The order added under this id is in the table and active: the table
\* entry leads to a record that still carries the id.
IsActiveOrder(id) ==
    /\ id \in DOMAIN orders_
    /\ order_mem[orders_[id]].id = id
    /\ order_mem[orders_[id]].status = "ACTIVE"

\* C12: cancel_order and modify_order called with an id that is unknown, or
\* whose order is no longer active (fully filled or fully cancelled), return
\* false and leave the order table, the levels and the pools as they were.
C12_InactiveIdIsRefused ==
    [][/\ \A id \in OrderIds, q \in Quantities :
            (IsCancelOrder(id, q) /\ ~IsActiveOrder(id)) =>
                (~call'.ret /\ BookAfter = Book)
       /\ \A id \in OrderIds, p \in Prices, q \in Quantities :
            (IsModifyOrder(id, p, q) /\ ~IsActiveOrder(id)) =>
                (~call'.ret /\ BookAfter = Book)
      ]_vars
\* A side holds resting quantity: some active order of it has something left.
HasResting(side) == \E s \in OnSide(side) : Remaining(order_mem[s]) > 0

\* What the claim makes of a best quote <<price, quantity>> of a side whose
\* best price is best: the best price with the total of its level, which is
\* above 0, and <<0, 0>> exactly when nothing rests on the side.
IsBestQuote(quote, side, best) ==
    /\ (quote = <<0, 0>>) <=> ~HasResting(side)
    /\ HasResting(side) =>
          /\ best \in DOMAIN IndexOf(side)
          /\ quote = <<best, LevelAt(side, best).total_quantity>>
          /\ quote[2] > 0

\* C13: in every reachable book state get_best_bid returns the highest bid
\* price with that level's quantity, which is above 0, get_best_ask the
\* lowest ask price with its quantity above 0, and each returns (0, 0)
\* exactly when its side holds no resting quantity (stated for an ordinary
\* book).
C13_BestQuotes ==
    OrdinaryBook =>
        /\ IsBestQuote(get_best_bid(Book), "BUY",
                       IF DOMAIN bids_ = {} THEN 0 ELSE MaxOf(DOMAIN bids_))
        /\ IsBestQuote(get_best_ask(Book), "SELL",
                       IF DOMAIN asks_ = {} THEN 0 ELSE MinOf(DOMAIN asks_))
\* C14: whenever both sides are non-empty get_mid_price returns
\* (best bid price + best ask price) / 2, truncated, and get_spread returns
\* best ask price - best bid price, at every price an order may rest at,
\* price 0 included; with a side empty both return 0.
C14_MidAndSpread ==
    IF DOMAIN bids_ # {} /\ DOMAIN asks_ # {}
    THEN LET bid == MaxOf(DOMAIN bids_)
             ask == MinOf(DOMAIN asks_)
         IN  /\ get_mid_price(Book) = CDiv(bid + ask, 2)
             /\ get_spread(Book) = ask - bid
    ELSE get_mid_price(Book) = 0 /\ get_spread(Book) = 0
\* What the claim makes of the result of get_bids / get_asks for a side:
\* Min2(depth, number of levels) pairs, the first at the best price, prices
\* strictly falling for bids and strictly rising for asks, each pair the
\* price and total_quantity of the level stored under that price.
IsDepthView(r, side, depth) ==
    LET idx == IndexOf(side) IN
    /\ Len(r) = Min2(depth, Cardinality(DOMAIN idx))
    /\ Len(r) > 0 => r[1][1] = Begin(idx, side)
    /\ \A i \in 1..Len(r) :
          /\ r[i][1] \in DOMAIN idx
          /\ r[i] = <<LevelAt(side, r[i][1]).price,
                      LevelAt(side, r[i][1]).total_quantity>>
    /\ \A i, j \in 1..Len(r) :
          i < j => IF side = "BUY" THEN r[i][1] > r[j][1] ELSE r[i][1] < r[j][1]

\* C15: in every book state a call has returned in, get_bids(depth) returns
\* exactly Min2(depth, number of bid levels) pairs in strictly descending
\* price order from the best bid, get_asks(depth) the same in strictly
\* ascending order from the best ask, and every pair is the price and the
\* total_quantity of a distinct level of the index.
C15_DepthViews ==
    Returned =>
        \A depth \in Depths :
            /\ IsDepthView(get_bids(Book, depth), "BUY", depth)
            /\ IsDepthView(get_asks(Book, depth), "SELL", depth)
\* Two add_order calls of different threads with one id that overlapped and
\* have both returned.
Overlapped(t, u) == u \in pc[t].during \/ t \in pc[u].during

RacedForId(t, u) ==
    /\ t # u
    /\ Overlapped(t, u)
    /\ pc[t].at = "returned" /\ pc[u].at = "returned"
    /\ pc[t].op = "add_order" /\ pc[u].op = "add_order"
    /\ pc[t].id = pc[u].id

\* While a thread holds the guard and has not acted the book is the one it
\* found; when it leaves, the book and the return value are those of its
\* call run alone on the book it found.
OneAtATime ==
    \A t \in Threads :
        /\ pc[t].at \in {"find", "act"} => Book = pc[t].pre
        /\ pc[t].at = "unlock" =>
             \E r \in Serial(pc[t].pre, pc[t]) :
                 r.b = Book /\ r.ret = pc[t].ret /\ r.crashed = crashed

C16_NeverRelocks ==
    \A t \in Threads : pc[t].at = "relock" => owner["OrderBook"] # t

\* C16: a get_stats call that a thread began returns the statistics.
C16_GetStatsReturns ==
    \A t \in Threads :
        (pc[t].op = "get_stats" /\ pc[t].at = "lock")
            ~> (pc[t].op = "get_stats" /\ pc[t].at = "returned")

\* C18: at most one OrderBook is ever constructed per symbol; every caller
\* that holds a book for a symbol holds the one the registry owns; what
\* get_active_symbols has reported once is in the registry, and so in every
\* later snapshot, from then on.
Holds(t) == pc[t].book # 0 /\ pc[t].at \in {"unlock", "dispatch", "returned"}

C18_OneBookPerSymbol ==
    /\ \A i, j \in DOMAIN heap : heap[i].symbol = heap[j].symbol => i = j
    /\ \A t \in Threads :
         Holds(t) => /\ pc[t].symbol \in DOMAIN order_books_
                     /\ order_books_[pc[t].symbol] = pc[t].book
                     /\ heap[pc[t].book].alive
    /\ \A t, u \in Threads :
         Holds(t) /\ Holds(u) /\ pc[t].symbol = pc[u].symbol => pc[t].book = pc[u].book
    /\ seen \subseteq DOMAIN order_books_
    /\ \A t \in Threads :
         pc[t].op = "get_active_symbols" /\ pc[t].at \in {"unlock", "returned"}
            => pc[t].symbols \subseteq DOMAIN order_books_

C18_Witness ==
    \E t, u \in Threads :
        /\ t # u
        /\ Overlapped(t, u)
        /\ Holds(t) /\ Holds(u)
        /\ pc[t].symbol = pc[u].symbol
        /\ pc[t].at = "returned" /\ pc[u].at = "returned"
        /\ pc[t].symbol \in seen

\* C20: every handle that is out designates an element of a chunk the pool
\* owns, also after the pool grew, and no handle is out twice: the handles
\* out are as many as the pool counts in use.
C20_HandlesInsideChunks ==
    /\ \A h \in live : InChunk(h)
    /\ call.op = "allocate" => InChunk(call.ret)
    /\ Cardinality(live) = allocated_count_ - Len(free_list_)

\* The mutexes a thread holds, the one it is about to ask for, and the
\* nestings the discipline allows: registry, then book, then pool.
Held(t) == {m \in Mutexes : owner[m] = t}

Wanted(t) ==
    IF pc[t].at = "path" /\ pc[t].todo # <<>> /\ Head(pc[t].todo)[1] = "lock"
    THEN {Head(pc[t].todo)[2]} ELSE {}

Class(m) ==
    CASE m = "OrderBookManager" -> "Registry"
      [] m = "OrderBook" -> "OrderBook"
      [] m \in {"order_pool_", "level_pool_"} -> "Pool"
      [] m = "PositionTracker" -> "PositionTracker"

LockOrder ==
    {<<"Registry", "OrderBook">>, <<"Registry", "Pool">>, <<"OrderBook", "Pool">>}

\* C19: a thread that asks for a mutex while it holds another one asks in
\* the order registry, book, pool; the position tracker's mutex is never
\* held while another is asked for, nor asked for while another is held;
\* no two threads wait for each other.
C19_LockOrder ==
    /\ \A t \in Threads : \A h \in Held(t), m \in Wanted(t) :
         <<Class(h), Class(m)>> \in LockOrder
    /\ \A t, u \in Threads :
         ~(\E m \in Wanted(t), n \in Wanted(u) : t # u /\ owner[m] = u /\ owner[n] = t)

C19_Witness ==
    \E t, u \in Threads :
        /\ t # u
        /\ owner["OrderBook"] = t
        /\ "level_pool_" \in Wanted(t)
        /\ owner["level_pool_"] = 0
        /\ owner["PositionTracker"] = u
        /\ pc[u].op = "execute_add_market_buy"

\* C21: get_stats reports the handles that are out as current_usage, the
\* allocate() calls made as allocation_count and the deallocate() calls made
\* as free_count.
C21_PoolStatsCountCalls ==
    /\ PoolStats.current_usage = allocate_calls - deallocate_calls
    /\ PoolStats.current_usage = Cardinality(live)
    /\ PoolStats.allocation_count = allocate_calls
    /\ PoolStats.free_count = deallocate_calls

\* ------------------------------------------------------- PositionTracker
TrackerSymbols == {1, 2}
TradePrices == {-3, 2}
TradeQuantities == {0, 1, 2}
TradeOrderIds == {7}
MaxTrackerOps == 3

\* PositionLimits(): the default limits, scaled down with their proportions
\* kept (1000000, 500000, 500000, 1000000, 500000).
limits_ ==
    [max_position_size |-> 4, max_long_position |-> 2, max_short_position |-> 2,
     max_daily_loss |-> 4, max_drawdown |-> 2]

get_net_position(position) == position.long_quantity - position.short_quantity
get_total_position(position) == UAdd(position.long_quantity, position.short_quantity)
is_flat(position) == position.long_quantity = 0 /\ position.short_quantity = 0

\* positions_[symbol]: operator[] default-constructs the entry it misses.
Entry(positions, symbol) ==
    IF symbol \in DOMAIN positions THEN positions[symbol] ELSE Position(0)

Store(positions, symbol, position) ==
    [s \in DOMAIN positions \cup {symbol} |->
        IF s = symbol THEN position ELSE positions[s]]

\* A weighted average that rounds down instead of towards zero (not the code).
WeightedAverage_Floor(avg, held, price, quantity) ==
    (avg * held + price * quantity) \div UAdd(held, quantity)

\* The weighted average of lines 261-262 and 275-276: int64 products, the
\* uint32 sum of the quantities, int64 division.
WeightedAverage(avg, held, price, quantity) ==
    CDiv(avg * held + price * quantity, UAdd(held, quantity))

\* A tracker that nets a trade against the opposite leg (not the code).
update_position_Netting(positions, symbol, price, quantity, side) ==
    LET position == [Entry(positions, symbol) EXCEPT !.symbol = symbol]
        closed == Min2(quantity, IF side = "BUY" THEN position.short_quantity
                                 ELSE position.long_quantity)
    IN  Store(positions, symbol,
              IF side = "BUY"
              THEN [position EXCEPT !.short_quantity = @ - closed,
                                    !.avg_long_price = price,
                                    !.long_quantity = UAdd(@, quantity - closed)]
              ELSE [position EXCEPT !.long_quantity = @ - closed,
                                    !.avg_short_price = price,
                                    !.short_quantity = UAdd(@, quantity - closed)])

update_position(positions, symbol, price, quantity, side) ==
    LET position == [Entry(positions, symbol) EXCEPT !.symbol = symbol] IN
    Store(positions, symbol,
          IF side = "BUY"
          THEN [position EXCEPT
                  !.avg_long_price =
                      IF position.long_quantity = 0 THEN price
                      ELSE WeightedAverage(position.avg_long_price,
                                           position.long_quantity, price, quantity),
                  !.long_quantity = UAdd(@, quantity)]
          ELSE [position EXCEPT
                  !.avg_short_price =
                      IF position.short_quantity = 0 THEN price
                      ELSE WeightedAverage(position.avg_short_price,
                                           position.short_quantity, price, quantity),
                  !.short_quantity = UAdd(@, quantity)])

\* The realized P&L taken from the leg the trade adds to (not the code).
calculate_realized_pnl_SameLeg(positions, symbol, price, quantity, side) ==
    IF symbol \notin DOMAIN positions THEN 0
    ELSE LET position == positions[symbol] IN
         IF side = "BUY"
         THEN IF position.long_quantity > 0
              THEN (price - position.avg_long_price)
                       * Min2(quantity, position.long_quantity)
              ELSE 0
         ELSE IF position.short_quantity > 0
              THEN (position.avg_short_price - price)
                       * Min2(quantity, position.short_quantity)
              ELSE 0

calculate_realized_pnl(positions, symbol, price, quantity, side) ==
    IF symbol \notin DOMAIN positions THEN 0
    ELSE LET position == positions[symbol] IN
         IF side = "BUY"
         THEN IF position.short_quantity > 0
              THEN (position.avg_short_price - price)
                       * Min2(quantity, position.short_quantity)
              ELSE 0
         ELSE IF position.long_quantity > 0
              THEN (price - position.avg_long_price)
                       * Min2(quantity, position.long_quantity)
              ELSE 0

\* An unrealized P&L that marks the long leg only (not the code).
calculate_unrealized_pnl_LongOnly(position, current_price) ==
    IF position.long_quantity > 0
    THEN (current_price - position.avg_long_price) * position.long_quantity
    ELSE 0

calculate_unrealized_pnl(position, current_price) ==
    (IF position.long_quantity > 0
     THEN (current_price - position.avg_long_price) * position.long_quantity
     ELSE 0)
    + (IF position.short_quantity > 0
       THEN (position.avg_short_price - current_price) * position.short_quantity
       ELSE 0)

\* Trade(symbol, price, quantity, side, order_id), without its timestamp.
Trade(symbol, price, quantity, side, order_id) ==
    [symbol |-> symbol, price |-> price, quantity |-> quantity,
     side |-> side, order_id |-> order_id]

\* A journal that puts the newest entry first (not the code).
emplace_back_Front(history, symbol, trade) ==
    [s \in DOMAIN history \cup {symbol} |->
        IF s = symbol
        THEN <<trade>> \o (IF s \in DOMAIN history THEN history[s] ELSE <<>>)
        ELSE history[s]]

\* trade_history_[symbol].emplace_back(...)
emplace_back(history, symbol, trade) ==
    [s \in DOMAIN history \cup {symbol} |->
        IF s = symbol
        THEN Append(IF s \in DOMAIN history THEN history[s] ELSE <<>>, trade)
        ELSE history[s]]

\* record_trade: the journal entry (line 22), update_position (line 25),
\* then the realized P&L computed on the updated position (lines 28-29).
record_trade(positions, history, symbol, price, quantity, side, order_id) ==
    LET updated == update_position(positions, symbol, price, quantity, side)
        realized_pnl == calculate_realized_pnl(updated, symbol, price, quantity, side)
    IN [positions_ |-> [updated EXCEPT ![symbol].realized_pnl = @ + realized_pnl],
        trade_history_ |-> emplace_back(history, symbol,
                                        Trade(symbol, price, quantity, side, order_id)),
        ret |-> TRUE]

update_unrealized_pnl(positions, symbol, current_price) ==
    IF symbol \in DOMAIN positions
    THEN [positions EXCEPT ![symbol].unrealized_pnl =
              calculate_unrealized_pnl(positions[symbol], current_price)]
    ELSE positions

update_all_unrealized_pnl(positions, current_prices) ==
    [symbol \in DOMAIN positions |->
        IF symbol \in DOMAIN current_prices
        THEN [positions[symbol] EXCEPT !.unrealized_pnl =
                  calculate_unrealized_pnl(positions[symbol], current_prices[symbol])]
        ELSE positions[symbol]]

check_position_limits(positions, symbol, quantity, side) ==
    IF symbol \notin DOMAIN positions
    THEN quantity <= limits_.max_position_size
    ELSE LET pos == positions[symbol]
             net_position == get_net_position(pos)
         IN  IF side = "BUY" /\ net_position + quantity > limits_.max_long_position
             THEN FALSE
             ELSE IF side = "SELL"
                     /\ net_position - quantity < -limits_.max_short_position
             THEN FALSE
             ELSE UAdd(get_total_position(pos), quantity) <= limits_.max_position_size

\* The std::map<SymbolId, Price> arguments of update_all_unrealized_pnl.
PriceMaps == UNION {[symbols -> TradePrices] : symbols \in SUBSET TrackerSymbols}

NoArgs == [symbol |-> 0, price |-> 0, quantity |-> 0, side |-> "BUY", order_id |-> 0]

Called(op, ret, args) ==
    /\ call' = [op |-> op, ret |-> ret, args |-> args]
    /\ nops' = nops + 1

outsideTracker ==
    <<bookVars, crashed, stale_erase, pc, owner, registryVars, poolVars, scenarioVars, driverVars>>

RecordTrade(max, prices, quantities) ==
    /\ CanCall(max)
    /\ \E symbol \in TrackerSymbols, price \in prices,
          quantity \in quantities, side \in Sides, order_id \in TradeOrderIds :
         LET r == record_trade(positions_, trade_history_,
                               symbol, price, quantity, side, order_id) IN
         /\ positions_' = r.positions_
         /\ trade_history_' = r.trade_history_
         /\ Called("record_trade", r.ret,
                   Trade(symbol, price, quantity, side, order_id))
    /\ UNCHANGED <<mmap_, outsideTracker>>

UpdateUnrealizedPnl(max, prices) ==
    /\ CanCall(max)
    /\ \E symbol \in TrackerSymbols, current_price \in prices :
         /\ positions_' = update_unrealized_pnl(positions_, symbol, current_price)
         /\ Called("update_unrealized_pnl", TRUE,
                   [NoArgs EXCEPT !.symbol = symbol, !.price = current_price])
    /\ UNCHANGED <<trade_history_, mmap_, outsideTracker>>

UpdateAllUnrealizedPnl ==
    /\ CanCall(MaxTrackerOps)
    /\ \E current_prices \in PriceMaps :
         /\ positions_' = update_all_unrealized_pnl(positions_, current_prices)
         /\ Called("update_all_unrealized_pnl", TRUE, current_prices)
    /\ UNCHANGED <<trade_history_, mmap_, outsideTracker>>

CheckPositionLimits ==
    /\ CanCall(MaxTrackerOps)
    /\ \E symbol \in TrackerSymbols, quantity \in TradeQuantities, side \in Sides :
         Called("check_position_limits",
                check_position_limits(positions_, symbol, quantity, side),
                [NoArgs EXCEPT !.symbol = symbol, !.quantity = quantity,
                               !.side = side])
    /\ UNCHANGED <<trackerVars, outsideTracker>>

ClearTradeHistory ==
    /\ CanCall(MaxTrackerOps)
    /\ trade_history_' = <<>>
    /\ Called("clear_trade_history", TRUE, NoArgs)
    /\ UNCHANGED <<positions_, mmap_, outsideTracker>>

Reset(max) ==
    /\ CanCall(max)
    /\ positions_' = <<>>
    /\ trade_history_' = <<>>
    /\ Called("reset", TRUE, NoArgs)
    /\ UNCHANGED <<mmap_, outsideTracker>>

NextTracker ==
    \/ RecordTrade(MaxTrackerOps, TradePrices, TradeQuantities)
    \/ UpdateUnrealizedPnl(MaxTrackerOps, TradePrices)
    \/ UpdateAllUnrealizedPnl
    \/ CheckPositionLimits
    \/ ClearTradeHistory
    \/ Reset(MaxTrackerOps)

SpecTracker == Init /\ [][NextTracker]_vars

\* ------------------------------------------------ PositionTracker: claims
\* The step just taken is a call of op.
Made(op) == call'.op = op /\ nops' = nops + 1

\* C22: record_trade adds to the symbol's realized_pnl the amount computed
\* against the position as it was before the trade: for a buy,
\* (avg_short - price) * min(qty, short_qty) when short_qty > 0, else 0; for
\* a sell, (price - avg_long) * min(qty, long_qty) when long_qty > 0, else 0;
\* a first trade on a symbol realizes 0.
C22_RealizedAgainstPriorPosition ==
    [][Made("record_trade") =>
         LET a == call'.args
             prior == Entry(positions_, a.symbol)
             realized ==
                 IF a.side = "BUY"
                 THEN IF prior.short_quantity > 0
                      THEN (prior.avg_short_price - a.price)
                               * Min2(a.quantity, prior.short_quantity)
                      ELSE 0
                 ELSE IF prior.long_quantity > 0
                      THEN (a.price - prior.avg_long_price)
                               * Min2(a.quantity, prior.long_quantity)
                      ELSE 0
         IN  /\ positions_'[a.symbol].realized_pnl = prior.realized_pnl + realized
             /\ a.symbol \notin DOMAIN positions_
                    => positions_'[a.symbol].realized_pnl = 0]_vars

\* A trade that closed against the opposite leg has just realized a profit
\* or a loss.
C22_Witness ==
    /\ call.op = "record_trade"
    /\ positions_[call.args.symbol].realized_pnl # 0
    /\ positions_[call.args.symbol].long_quantity > 0
    /\ positions_[call.args.symbol].short_quantity > 0

\* C23: record_trade always returns true, whatever the limits say; a buy of
\* qty increases long_quantity by exactly qty and leaves short_quantity and
\* avg_short_price as they were, a sell increases short_quantity by exactly
\* qty and leaves long_quantity and avg_long_price as they were, and the
\* positions of the other symbols are untouched.
C23_TradeTouchesOneLeg ==
    [][Made("record_trade") =>
         LET a == call'.args
             prior == Entry(positions_, a.symbol)
             after == positions_'[a.symbol]
         IN  /\ call'.ret = TRUE
             /\ a.side = "BUY" =>
                    /\ after.long_quantity = prior.long_quantity + a.quantity
                    /\ after.short_quantity = prior.short_quantity
                    /\ after.avg_short_price = prior.avg_short_price
             /\ a.side = "SELL" =>
                    /\ after.short_quantity = prior.short_quantity + a.quantity
                    /\ after.long_quantity = prior.long_quantity
                    /\ after.avg_long_price = prior.avg_long_price
             /\ DOMAIN positions_' = DOMAIN positions_ \cup {a.symbol}
             /\ \A other \in DOMAIN positions_ \ {a.symbol} :
                    positions_'[other] = positions_[other]]_vars

\* A trade was recorded on a position that check_position_limits refuses to
\* grow on that side, next to another tracked symbol.
C23_Witness ==
    /\ call.op = "record_trade"
    /\ call.ret = TRUE
    /\ call.args.quantity > 0
    /\ DOMAIN positions_ = TrackerSymbols
    /\ ~check_position_limits(positions_, call.args.symbol, 0, call.args.side)

\* The leg a trade adds to: its quantity and its average price.
LegQuantity(position, side) ==
    IF side = "BUY" THEN position.long_quantity ELSE position.short_quantity
LegAverage(position, side) ==
    IF side = "BUY" THEN position.avg_long_price ELSE position.avg_short_price

\* C24: after record_trade buys q at p on a position with prior long
\* quantity Q and average P, avg_long_new * (Q + q) = P * Q + p * q exactly
\* (and the same for the short leg on a sell).
C24_AverageExact ==
    [][Made("record_trade") =>
         LET a == call'.args
             prior == Entry(positions_, a.symbol)
             Q == LegQuantity(prior, a.side)
             P == LegAverage(prior, a.side)
         IN  LegAverage(positions_'[a.symbol], a.side) * (Q + a.quantity)
                 = P * Q + a.price * a.quantity]_vars

\* C24: the new average is p when the leg was empty, and otherwise the
\* quotient of P * Q + p * q by Q + q rounded towards zero: what the
\* division leaves out is smaller than Q + q and has the sign of the sum.
C24_AverageTruncated ==
    [][Made("record_trade") =>
         LET a == call'.args
             prior == Entry(positions_, a.symbol)
             Q == LegQuantity(prior, a.side)
             P == LegAverage(prior, a.side)
             value == P * Q + a.price * a.quantity
             rest == value - LegAverage(positions_'[a.symbol], a.side) * (Q + a.quantity)
         IN  /\ Q = 0 => LegAverage(positions_'[a.symbol], a.side) = a.price
             /\ Q > 0 => /\ rest < Q + a.quantity
                         /\ -rest < Q + a.quantity
                         /\ value >= 0 => rest >= 0
                         /\ value <= 0 => rest <= 0]_vars

\* One bought at 2 and one bought at -3 are held at an average of 0: the
\* division dropped the remainder of -1 by 2.
C24_Witness ==
    /\ call.op = "record_trade"
    /\ 1 \in DOMAIN trade_history_
    /\ trade_history_[1] = <<Trade(1, 2, 1, "BUY", 7), Trade(1, -3, 1, "BUY", 7)>>
    /\ positions_[1].long_quantity = 2
    /\ positions_[1].avg_long_price = 0

\* position marked at current_price, and nothing else about it changed.
Marked(position, current_price) ==
    [position EXCEPT !.unrealized_pnl =
        (current_price - position.avg_long_price) * position.long_quantity
        + (position.avg_short_price - current_price) * position.short_quantity]

\* C25: update_unrealized_pnl(symbol, current_price) sets the symbol's
\* unrealized_pnl to (current_price - avg_long) * long_qty
\* + (avg_short - current_price) * short_qty and changes neither quantities,
\* averages nor realized_pnl; for a symbol without a position it creates
\* nothing; update_all_unrealized_pnl does the same for exactly the tracked
\* symbols present in the price map and leaves every other position as it
\* was.
C25_UnrealizedMarksPosition ==
    [][/\ Made("update_unrealized_pnl") =>
            LET a == call'.args IN
            /\ DOMAIN positions_' = DOMAIN positions_
            /\ \A symbol \in DOMAIN positions_ :
                 positions_'[symbol] =
                     IF symbol = a.symbol THEN Marked(positions_[symbol], a.price)
                     ELSE positions_[symbol]
            /\ trade_history_' = trade_history_
       /\ Made("update_all_unrealized_pnl") =>
            LET current_prices == call'.args IN
            /\ DOMAIN positions_' = DOMAIN positions_
            /\ \A symbol \in DOMAIN positions_ :
                 positions_'[symbol] =
                     IF symbol \in DOMAIN current_prices
                     THEN Marked(positions_[symbol], current_prices[symbol])
                     ELSE positions_[symbol]
            /\ trade_history_' = trade_history_]_vars

\* update_all_unrealized_pnl was given a price for one of two tracked
\* symbols and for no other, and that symbol, short, now shows a profit or
\* a loss.
C25_Witness ==
    /\ call.op = "update_all_unrealized_pnl"
    /\ DOMAIN positions_ = TrackerSymbols
    /\ \E symbol \in TrackerSymbols :
         /\ DOMAIN call.args = {symbol}
         /\ positions_[symbol].short_quantity > 0
         /\ positions_[symbol].unrealized_pnl # 0
         /\ \A other \in TrackerSymbols \ {symbol} :
              ~is_flat(positions_[other]) /\ positions_[other].unrealized_pnl = 0

\* C26: check_position_limits(symbol, qty, side) is a pure query that
\* returns true exactly when the symbol has no position and
\* qty <= max_position_size, or it has one, the net position after adding
\* qty on that side stays within [-max_short_position, max_long_position]
\* and long_qty + short_qty + qty <= max_position_size.
C26_LimitsBothBounds ==
    [][Made("check_position_limits") =>
         LET a == call'.args
             allowed ==
                 IF a.symbol \notin DOMAIN positions_
                 THEN a.quantity <= limits_.max_position_size
                 ELSE LET pos == positions_[a.symbol]
                          net == get_net_position(pos)
                                   + (IF a.side = "BUY" THEN a.quantity ELSE -a.quantity)
                      IN  /\ net >= -limits_.max_short_position
                          /\ net <= limits_.max_long_position
                          /\ pos.long_quantity + pos.short_quantity + a.quantity
                                 <= limits_.max_position_size
         IN  /\ call'.ret = allowed
             /\ UNCHANGED trackerVars]_vars

\* -------------------------------------------- PositionTracker: its mutex
MaxRiskCalls == 3

\* The calls the threads make on the tracker.
RiskCalls ==
    {[Idle EXCEPT !.op = "record_trade", !.symbol = 1, !.price = price,
                  !.quantity = 1, !.side = side, !.id = 7] :
        price \in TradePrices, side \in Sides}
    \cup {[Idle EXCEPT !.op = "check_risk_limits"]}

RECURSIVE SumPnL(_, _)
SumPnL(pnl, symbols) ==
    IF symbols = {} THEN 0
    ELSE LET symbol == CHOOSE x \in symbols : TRUE
         IN  pnl[symbol] + SumPnL(pnl, symbols \ {symbol})

get_total_realized_pnl(positions) ==
    SumPnL([symbol \in DOMAIN positions |-> positions[symbol].realized_pnl],
           DOMAIN positions)

get_total_unrealized_pnl(positions) ==
    SumPnL([symbol \in DOMAIN positions |-> positions[symbol].unrealized_pnl],
           DOMAIN positions)

get_total_pnl(positions) ==
    get_total_realized_pnl(positions) + get_total_unrealized_pnl(positions)

\* Lines 151-163 of check_risk_limits, given the total of line 149.
check_risk_limits(total_pnl) ==
    IF total_pnl < -limits_.max_daily_loss THEN FALSE
    ELSE IF total_pnl < -limits_.max_drawdown THEN FALSE
    ELSE TRUE

outsideRisk ==
    <<bookVars, crashed, stale_erase, call, registryVars, poolVars, scenarioVars, driverVars, mmap_>>

RiskInvoke(t) ==
    /\ CanCall(MaxRiskCalls)
    /\ pc[t].at \in Outside
    /\ \E c \in RiskCalls : Move(t, [c EXCEPT !.at = "lock"])
    /\ nops' = nops + 1
    /\ UNCHANGED <<positions_, trade_history_, owner, outsideRisk>>

\* The lock_guard at the top of record_trade (line 19) and of
\* check_risk_limits (line 147).
RiskLock(t) ==
    /\ pc[t].at = "lock"
    /\ mutex_lock(owner["PositionTracker"])
    /\ owner' = [owner EXCEPT !["PositionTracker"] = t]
    /\ Move(t, [pc[t] EXCEPT !.at = IF pc[t].op = "check_risk_limits"
                                    THEN "total" ELSE "act"])
    /\ UNCHANGED <<positions_, trade_history_, nops, outsideRisk>>

\* record_trade, lines 21-31, with the mutex held.
RiskRecord(t) ==
    /\ pc[t].at = "act"
    /\ LET c == pc[t]
           r == record_trade(positions_, trade_history_,
                             c.symbol, c.price, c.quantity, c.side, c.id)
       IN  /\ positions_' = r.positions_
           /\ trade_history_' = r.trade_history_
           /\ Move(t, [c EXCEPT !.at = "unlock", !.ret = r.ret])
    /\ UNCHANGED <<owner, nops, outsideRisk>>

RiskUnlock(t) ==
    /\ pc[t].at = "unlock"
    /\ owner' = [owner EXCEPT !["PositionTracker"] = 0]
    /\ Move(t, [pc[t] EXCEPT !.at = "returned"])
    /\ UNCHANGED <<positions_, trade_history_, nops, outsideRisk>>

\* Line 149: with its own lock_guard alive, check_risk_limits calls
\* get_total_pnl(), which calls get_total_realized_pnl(), whose first
\* statement (line 77) constructs a second lock_guard on the same mutex_.
\* The outcomes are those of RelockOutcomes.
RiskRelock(t) ==
    /\ pc[t].at = "total"
    /\ owner["PositionTracker"] = t
    /\ \E o \in RelockOutcomes :
         CASE o = "deadlock" ->
                /\ Move(t, [pc[t] EXCEPT !.at = "blocked"])
                /\ UNCHANGED owner
           [] o = "system_error" ->
                /\ Move(t, [pc[t] EXCEPT !.at = "threw"])
                /\ owner' = [owner EXCEPT !["PositionTracker"] = 0]
           [] o = "unguarded" ->
                /\ Move(t, [pc[t] EXCEPT !.at = "unguarded"])
                /\ owner' = [owner EXCEPT !["PositionTracker"] = 0]
    /\ UNCHANGED <<positions_, trade_history_, nops, outsideRisk>>

\* Lines 149-163 without the guard: get_total_unrealized_pnl locks and
\* unlocks mutex_ itself, then the total is compared with the limits.
RiskFinish(t) ==
    /\ pc[t].at = "unguarded"
    /\ mutex_lock(owner["PositionTracker"])
    /\ Move(t, [pc[t] EXCEPT !.at = "returned",
                             !.ret = check_risk_limits(get_total_pnl(positions_))])
    /\ UNCHANGED <<positions_, trade_history_, owner, nops, outsideRisk>>

RiskStep(t) ==
    \/ RiskLock(t)
    \/ RiskRecord(t)
    \/ RiskUnlock(t)
    \/ RiskRelock(t)
    \/ RiskFinish(t)

NextRisk ==
    \E t \in Threads :
        \/ RiskInvoke(t)
        \/ RiskStep(t)

\* The scheduler runs every thread that can take a step.
FairSpecRisk ==
    Init /\ [][NextRisk]_vars /\ \A t \in Threads : WF_vars(RiskStep(t))

\* C27: a check_risk_limits call begun by a thread that holds no lock
\* returns.
C27_CheckRiskLimitsReturns ==
    \A t \in Threads :
        (pc[t].op = "check_risk_limits" /\ pc[t].at = "lock")
            ~> (pc[t].op = "check_risk_limits" /\ pc[t].at = "returned")

\* C28: each record_trade call appends exactly one entry with the supplied
\* symbol, price, quantity, side and order id to that symbol's journal, after
\* the entries already there; reset() leaves no positions and an empty
\* journal.
Journal(history, symbol) ==
    IF symbol \in DOMAIN history THEN history[symbol] ELSE <<>>

JournalAppends ==
    /\ Made("record_trade") =>
         \A symbol \in TrackerSymbols :
            Journal(trade_history_', symbol) =
                IF symbol = call'.args.symbol
                THEN Append(Journal(trade_history_, symbol), call'.args)
                ELSE Journal(trade_history_, symbol)
    /\ Made("reset") => positions_' = <<>> /\ trade_history_' = <<>>

\* C28, as stated: and no operation other than reset() removes or alters
\* journal entries.
C28_OnlyResetClearsJournal ==
    [][/\ JournalAppends
       /\ ~Made("record_trade") /\ ~Made("reset")
             => \A symbol \in TrackerSymbols :
                   Journal(trade_history_', symbol) = Journal(trade_history_, symbol)]_vars

\* C28: and no operation other than reset() and clear_trade_history()
\* removes or alters journal entries; clear_trade_history() empties the
\* journal and leaves the positions.
C28_ResetOrClearEmptiesJournal ==
    [][/\ JournalAppends
       /\ Made("clear_trade_history") =>
             trade_history_' = <<>> /\ positions_' = positions_
       /\ ~Made("record_trade") /\ ~Made("reset") /\ ~Made("clear_trade_history")
             => \A symbol \in TrackerSymbols :
                   Journal(trade_history_', symbol) = Journal(trade_history_, symbol)]_vars

\* A second trade has just been appended behind the first in one symbol's
\* journal.
C28_Witness ==
    /\ call.op = "record_trade"
    /\ Len(Journal(trade_history_, call.args.symbol)) = 2
    /\ trade_history_[call.args.symbol][2] = call.args
    /\ trade_history_[call.args.symbol][1] # call.args

\* --------------------------------------------------- MMapPositionTracker
MaxSnapshotOps == 5
SnapshotPrices == {2}
SnapshotQuantities == {0, 1}

\* The orders in which a range-for can visit the std::unordered_map.
IterationOrders(symbols) ==
    {order \in [1..Cardinality(symbols) -> symbols] :
        \A i, j \in DOMAIN order : order[i] = order[j] => i = j}

\* resize_mmap(new_size), in slots: ftruncate extends the file with zeros.
resize_mmap(mmap, slots) ==
    [i \in 1..slots |-> IF i <= Len(mmap) THEN mmap[i] ELSE Position(0)]

\* flush: the mapping grown when the positions do not fit (lines 361-365),
\* then position i of the map written to slot i (lines 368-373); the slots
\* behind them keep what they held.  One result per iteration order.
flush(positions, mmap) ==
    LET count == Cardinality(DOMAIN positions)
        mapped == IF count > Len(mmap) THEN resize_mmap(mmap, count) ELSE mmap
    IN  {[i \in DOMAIN mapped |->
            IF i <= count THEN positions[order[i]] ELSE mapped[i]] :
         order \in IterationOrders(DOMAIN positions)}

\* load: nothing when the mapping is empty (lines 383-386); otherwise the
\* map is cleared and every slot whose symbol is not zero is assigned to
\* positions_[symbol], a later slot over an earlier one (lines 392-399).
load(positions, mmap) ==
    IF Len(mmap) = 0 THEN positions
    ELSE LET valid == {i \in DOMAIN mmap : mmap[i].symbol # 0} IN
         [symbol \in {mmap[i].symbol : i \in valid} |->
             mmap[MaxOf({i \in valid : mmap[i].symbol = symbol})]]

Flush ==
    /\ CanCall(MaxSnapshotOps)
    /\ mmap_' \in flush(positions_, mmap_)
    /\ Called("flush", TRUE, NoArgs)
    /\ UNCHANGED <<positions_, trade_history_, outsideTracker>>

Load ==
    /\ CanCall(MaxSnapshotOps)
    /\ positions_' = load(positions_, mmap_)
    /\ Called("load", TRUE, NoArgs)
    /\ UNCHANGED <<trade_history_, mmap_, outsideTracker>>

NextSnapshot ==
    \/ RecordTrade(MaxSnapshotOps, SnapshotPrices, SnapshotQuantities)
    \/ UpdateUnrealizedPnl(MaxSnapshotOps, SnapshotPrices)
    \/ Reset(MaxSnapshotOps)
    \/ Flush
    \/ Load

SpecSnapshot == Init /\ [][NextSnapshot]_vars

\* The positions that are not flat, with all their fields.
NonFlat(positions) ==
    {positions[symbol] : symbol \in {s \in DOMAIN positions : ~is_flat(positions[s])}}

\* C29: a load that follows a flush reproduces exactly the non-flat
\* positions the tracker held at the flush, with the same field values, also
\* when the snapshot array already held entries of an earlier flush.
C29_FlushLoadRoundTrip ==
    [][call.op = "flush" /\ Made("load")
          => NonFlat(positions_') = NonFlat(positions_)]_vars

\* -------------------------------------------------------- ScenarioRunner
\* The driver on one symbol: its order book is Book, its tracker positions_
\* and trade_history_.
MaxScenarioOps == 4
ScenarioSymbol == 1
ScenarioPrices == {0, 1}
ScenarioQuantities == {1, 2}

outsideScenario == <<pc, owner, registryVars, poolVars, mmap_, driverVars>>

\* execute_add_limit_buy and execute_add_limit_sell: add_order with the
\* parsed arguments.
AddLimit ==
    /\ CanCall(MaxScenarioOps)
    /\ \E id \in OrderIds, p \in ScenarioPrices, q \in ScenarioQuantities, s \in Sides :
         LET r == add_order(Book, id, p, q, s) IN
         /\ Install(r.b)
         /\ call' = [op |-> "add_limit", ret |-> r.ret,
                     args |-> Trade(ScenarioSymbol, p, q, s, id)]
    /\ nops' = nops + 1
    /\ UNCHANGED <<crashed, stale_erase, trackerVars, scenarioVars, outsideScenario>>

\* execute_enable_matching
EnableMatching ==
    /\ CanCall(MaxScenarioOps)
    /\ matching_enabled_' = TRUE
    /\ call' = [op |-> "enable_matching", ret |-> TRUE, args |-> NoArgs]
    /\ nops' = nops + 1
    /\ UNCHANGED <<bookVars, crashed, stale_erase, trackerVars, outsideScenario>>

\* execute_add_market_buy (side BUY, lines 389-415) and
\* execute_add_market_sell (side SELL, lines 417-443): with matching on and
\* a best price above zero on the opposite side, execute_trade at that price
\* and then record_trade; true in every case.  A trade that does not return
\* takes the process down before record_trade.
AddMarket(side) ==
    /\ CanCall(MaxScenarioOps)
    /\ \E order_id \in TradeOrderIds, quantity \in ScenarioQuantities :
         LET best == IF side = "BUY" THEN get_best_ask(Book) ELSE get_best_bid(Book)
             fill == Trade(ScenarioSymbol, best[1], quantity, side, order_id)
         IN  /\ call' = [op |-> "add_market", ret |-> TRUE, args |-> fill]
             /\ IF matching_enabled_ /\ best[1] > 0
                THEN \E r \in execute_trade(Book, best[1], quantity, side) :
                       /\ Install(r.b)
                       /\ crashed' = r.crashed
                       /\ stale_erase' = (stale_erase \/ r.stale)
                       /\ IF r.crashed
                          THEN UNCHANGED <<positions_, trade_history_>>
                          ELSE LET t == record_trade(positions_, trade_history_,
                                                     ScenarioSymbol, best[1],
                                                     quantity, side, order_id)
                               IN  /\ positions_' = t.positions_
                                   /\ trade_history_' = t.trade_history_
                ELSE UNCHANGED <<bookVars, crashed, stale_erase,
                                 positions_, trade_history_>>
    /\ nops' = nops + 1
    /\ UNCHANGED <<scenarioVars, outsideScenario>>

AddMarketBuy == AddMarket("BUY")
AddMarketSell == AddMarket("SELL")

\* The slippage argument of the slippage market commands.
Slippages == {0, 1}

\* execute_add_slippage_market_buy (side BUY, lines 499-526): with matching
\* on and a best bid above zero, execute_trade and then record_trade at the
\* best bid plus the slippage; execute_add_slippage_market_sell (side SELL,
\* lines 528-555): the same at the best ask minus the slippage.
AddSlippageMarket(side) ==
    /\ CanCall(MaxScenarioOps)
    /\ \E order_id \in TradeOrderIds, quantity \in ScenarioQuantities,
          slippage \in Slippages :
         LET best == IF side = "BUY" THEN get_best_bid(Book) ELSE get_best_ask(Book)
             execution_price == IF side = "BUY" THEN best[1] + slippage
                                ELSE best[1] - slippage
             fill == Trade(ScenarioSymbol, execution_price, quantity, side, order_id)
         IN  /\ call' = [op |-> "add_slippage_market", ret |-> TRUE, args |-> fill]
             /\ IF matching_enabled_ /\ best[1] > 0
                THEN \E r \in execute_trade(Book, execution_price, quantity, side) :
                       /\ Install(r.b)
                       /\ crashed' = r.crashed
                       /\ stale_erase' = (stale_erase \/ r.stale)
                       /\ IF r.crashed
                          THEN UNCHANGED <<positions_, trade_history_>>
                          ELSE LET t == record_trade(positions_, trade_history_,
                                                     ScenarioSymbol, execution_price,
                                                     quantity, side, order_id)
                               IN  /\ positions_' = t.positions_
                                   /\ trade_history_' = t.trade_history_
                ELSE UNCHANGED <<bookVars, crashed, stale_erase,
                                 positions_, trade_history_>>
    /\ nops' = nops + 1
    /\ UNCHANGED <<scenarioVars, outsideScenario>>

NextScenario ==
    \/ AddLimit
    \/ EnableMatching
    \/ AddMarketBuy
    \/ AddMarketSell
    \/ AddSlippageMarket("BUY")
    \/ AddSlippageMarket("SELL")

SpecScenario == Init /\ [][NextScenario]_vars

\* C30: the matching flag starts off and enable matching turns it on; an
\* add market buy (sell) executed while the flag is off changes neither the
\* book nor the tracker and is accepted; while the flag is on and the
\* opposite side is not empty it executes a trade at the current best ask
\* (best bid) price for qty and records one buy (sell) fill for the symbol.
C30_MarketOrdersMatch ==
    /\ ~matching_enabled_
    /\ [][/\ Made("enable_matching") => matching_enabled_'
          /\ Made("add_market") /\ ~crashed' =>
               LET a == call'.args
                   opposite == IF a.side = "BUY" THEN asks_ ELSE bids_
                   best == IF a.side = "BUY" THEN get_best_ask(Book)
                           ELSE get_best_bid(Book)
                   fill == record_trade(positions_, trade_history_, ScenarioSymbol,
                                        best[1], a.quantity, a.side, a.order_id)
               IN  /\ call'.ret = TRUE
                   /\ ~matching_enabled_ => UNCHANGED <<bookVars, trackerVars>>
                   /\ matching_enabled_ /\ DOMAIN opposite # {} =>
                        /\ \E r \in execute_trade(Book, best[1], a.quantity, a.side) :
                              BookAfter = r.b
                        /\ positions_' = fill.positions_
                        /\ trade_history_' = fill.trade_history_]_vars

\* ------------------------------------------- order book: pooled records
\* The index entries of both sides, as <<side, price>>.
IndexEntries ==
    {<<"BUY", p>> : p \in DOMAIN bids_} \cup {<<"SELL", p>> : p \in DOMAIN asks_}

\* C36: each entry of the bid and ask indexes refers to its own PriceLevel
\* record, whose price is the entry's key; a level is erased from its index
\* and returned to the level pool once per allocation: execute_trade never
\* erases or deallocates a consumed level a second time, and the pool's
\* free list holds no record twice and none that an index still refers to.
C36_LevelsErasedOnce ==
    /\ ~stale_erase
    /\ ~crashed
    /\ \A e \in IndexEntries : LevelAt(e[1], e[2]).price = e[2]
    /\ \A e, f \in IndexEntries :
          IndexOf(e[1])[e[2]] = IndexOf(f[1])[f[2]] => e = f
    /\ \A i, j \in DOMAIN level_free : level_free[i] = level_free[j] => i = j
    /\ \A e \in IndexEntries, i \in DOMAIN level_free :
          IndexOf(e[1])[e[2]] # level_free[i]

\* C35: cancel_order(id) and modify_order(id) reach only the order that was
\* added under that id: every order-table entry refers to a pooled record
\* that carries the entry's id, and no two entries refer to the same record
\* (stated for the books no execute_trade has erased a level from twice).
C35_TableEntriesOwnTheirRecords ==
    ~stale_erase =>
        /\ \A id \in DOMAIN orders_ : order_mem[orders_[id]].id = id
        /\ \A id, other \in DOMAIN orders_ :
              orders_[id] = orders_[other] => id = other

\* C37: for every order in the order table filled_quantity <= quantity, so
\* that quantity - filled_quantity never wraps as an unsigned word.
C37_FilledWithinQuantity ==
    \A id \in DOMAIN orders_ :
        order_mem[orders_[id]].filled_quantity <= order_mem[orders_[id]].quantity

\* ------------------------------------------ get_mid_price and get_spread
MaxMidCalls == 4

\* Whoever is inside get_mid_price or get_spread has seen state b go by.
Watched(u, b) ==
    IF pc[u].at \in {"bid", "ask"} THEN [pc[u] EXCEPT !.states = @ \cup {b}] ELSE pc[u]

\* A call of get_mid_price or get_spread begins: neither takes the mutex
\* itself (lines 264-288).
MidInvoke(t) ==
    /\ CanCall(MaxMidCalls)
    /\ pc[t].at \in Outside
    /\ \E op \in {"get_mid_price", "get_spread"} :
         Move(t, [Idle EXCEPT !.op = op, !.at = "bid", !.states = {Book}])
    /\ nops' = nops + 1
    /\ UNCHANGED <<bookVars, crashed, stale_erase, call, owner, elsewhere>>

\* add_order, cancel_order, modify_order or execute_trade from its
\* lock_guard to its return: one step, the mutex is held all the way.
Write(t) ==
    /\ ~crashed
    /\ pc[t].at = "lock"
    /\ mutex_lock(owner["OrderBook"])
    /\ \E r \in Serial(Book, pc[t]) :
         /\ Install(r.b)
         /\ crashed' = r.crashed
         /\ stale_erase' = (stale_erase \/ r.stale)
         /\ pc' = [u \in Threads |->
                     IF u = t THEN [pc[t] EXCEPT !.at = "returned", !.ret = r.ret]
                     ELSE Watched(u, r.b)]
    /\ UNCHANGED <<call, nops, owner, elsewhere>>

\* Lines 266 and 279: get_best_bid(), which locks, reads and unlocks.
ReadBid(t) ==
    /\ ~crashed
    /\ pc[t].at = "bid"
    /\ mutex_lock(owner["OrderBook"])
    /\ Move(t, [pc[t] EXCEPT !.at = "ask", !.stats.best_bid = get_best_bid(Book)[1]])
    /\ UNCHANGED <<bookVars, crashed, stale_erase, call, nops, owner, elsewhere>>

\* Lines 267-274 and 280-287: get_best_ask(), which locks, reads and
\* unlocks, and the value computed from the two prices.
ReadAsk(t) ==
    /\ ~crashed
    /\ pc[t].at = "ask"
    /\ mutex_lock(owner["OrderBook"])
    /\ LET bid_price == pc[t].stats.best_bid
           ask_price == get_best_ask(Book)[1]
           absent == bid_price = 0 \/ ask_price = 0
       IN  Move(t, [pc[t] EXCEPT
                      !.at = "returned",
                      !.stats.best_ask = ask_price,
                      !.stats.mid_price = IF absent THEN 0
                                          ELSE CDiv(bid_price + ask_price, 2),
                      !.stats.spread = IF absent THEN 0 ELSE ask_price - bid_price])
    /\ UNCHANGED <<bookVars, crashed, stale_erase, call, nops, owner, elsewhere>>

NextMid ==
    \E t \in Threads :
        \/ Invoke(t, MaxMidCalls)
        \/ MidInvoke(t)
        \/ Write(t)
        \/ ReadBid(t)
        \/ ReadAsk(t)

SpecMid == Init /\ [][NextMid]_vars

\* C39: the value get_mid_price or get_spread returns is the mid price or
\* the spread of one book state that existed between the call and the
\* return (stated for the books no execute_trade has erased a level from
\* twice).
C39_QuoteOfOneState ==
    ~stale_erase =>
        \A t \in Threads :
            pc[t].at = "returned" =>
                /\ pc[t].op = "get_mid_price" =>
                      \E b \in pc[t].states : pc[t].stats.mid_price = get_mid_price(b)
                /\ pc[t].op = "get_spread" =>
                      \E b \in pc[t].states : pc[t].stats.spread = get_spread(b)

\* --------------------------------------------------------- get_total_pnl
MaxPnLCalls == 4

\* The calls the threads make on the tracker next to get_total_pnl.
PnLCalls ==
    {[Idle EXCEPT !.op = "record_trade", !.symbol = 1, !.price = price,
                  !.quantity = quantity, !.side = side, !.id = 7] :
        price \in TradePrices, quantity \in {1, 2}, side \in Sides}
    \cup {[Idle EXCEPT !.op = "update_unrealized_pnl", !.symbol = 1, !.price = price] :
            price \in TradePrices}
    \cup {[Idle EXCEPT !.op = "get_total_pnl"]}

\* A call begins; get_total_pnl takes no lock itself (lines 99-102).
PnLInvoke(t) ==
    /\ CanCall(MaxPnLCalls)
    /\ pc[t].at \in Outside
    /\ \E c \in PnLCalls :
         Move(t, IF c.op = "get_total_pnl"
                 THEN [c EXCEPT !.at = "realized", !.states = {positions_}]
                 ELSE [c EXCEPT !.at = "lock"])
    /\ nops' = nops + 1
    /\ UNCHANGED <<positions_, trade_history_, owner, outsideRisk>>

\* record_trade or update_unrealized_pnl from its lock_guard to its return:
\* one step, the mutex is held all the way.
PnLWrite(t) ==
    /\ pc[t].at = "lock"
    /\ mutex_lock(owner["PositionTracker"])
    /\ LET c == pc[t]
           r == IF c.op = "record_trade"
                THEN record_trade(positions_, trade_history_,
                                  c.symbol, c.price, c.quantity, c.side, c.id)
                ELSE [positions_ |-> update_unrealized_pnl(positions_, c.symbol, c.price),
                      trade_history_ |-> trade_history_, ret |-> TRUE]
       IN  /\ positions_' = r.positions_
           /\ trade_history_' = r.trade_history_
           /\ pc' = [u \in Threads |->
                       IF u = t THEN [c EXCEPT !.at = "returned", !.ret = r.ret]
                       ELSE IF pc[u].at \in {"realized", "unrealized"}
                            THEN [pc[u] EXCEPT !.states = @ \cup {r.positions_}]
                            ELSE pc[u]]
    /\ UNCHANGED <<owner, nops, outsideRisk>>

\* Line 101, left operand: get_total_realized_pnl(), which locks, sums and
\* unlocks.
ReadRealized(t) ==
    /\ pc[t].at = "realized"
    /\ mutex_lock(owner["PositionTracker"])
    /\ Move(t, [pc[t] EXCEPT !.at = "unrealized",
                             !.total = get_total_realized_pnl(positions_)])
    /\ UNCHANGED <<positions_, trade_history_, owner, nops, outsideRisk>>

\* Line 101, right operand and sum: get_total_unrealized_pnl(), which
\* locks, sums and unlocks.
ReadUnrealized(t) ==
    /\ pc[t].at = "unrealized"
    /\ mutex_lock(owner["PositionTracker"])
    /\ Move(t, [pc[t] EXCEPT !.at = "returned",
                             !.total = @ + get_total_unrealized_pnl(positions_)])
    /\ UNCHANGED <<positions_, trade_history_, owner, nops, outsideRisk>>

NextPnL ==
    \E t \in Threads :
        \/ PnLInvoke(t)
        \/ PnLWrite(t)
        \/ ReadRealized(t)
        \/ ReadUnrealized(t)

SpecPnL == Init /\ [][NextPnL]_vars

\* C40: the value get_total_pnl returns is the total realized plus the total
\* unrealized P&L of one tracker state that existed during the call.
C40_TotalOfOneState ==
    \A t \in Threads :
        pc[t].at = "returned" /\ pc[t].op = "get_total_pnl" =>
            \E positions \in pc[t].states : pc[t].total = get_total_pnl(positions)

\* C38: for every market and slippage-market command executed with matching
\* enabled, the quantity recorded in the tracker equals the quantity the
\* execute_trade call removed from the book (stated for the books no
\* execute_trade has erased a level from twice).
C38_RecordedEqualsFilled ==
    [][(Made("add_market") \/ Made("add_slippage_market"))
          /\ matching_enabled_ /\ ~crashed' /\ ~stale_erase' =>
            LET a == call'.args
                recorded ==
                    LegQuantity(Entry(positions_', ScenarioSymbol), a.side)
                        - LegQuantity(Entry(positions_, ScenarioSymbol), a.side)
                removed ==
                    IF a.side = "BUY" THEN Depth("SELL") - Depth("SELL")'
                    ELSE Depth("BUY") - Depth("BUY")'
            IN  recorded = removed]_vars

\* ------------------------------------------------ ScenarioRunner::run_scenario
\* A scenario file is a sequence of lines, a line a sequence of words.  The
\* lines the model runs: a comment, a line no command begins with, a line
\* that begins like a command and does not go on like one, and commands with
\* and without the number of arguments their handler asks for.  Order
\* commands name symbol 1, whose book is Book.
MaxLines == 3

ScriptLines ==
    { <<"#", "note">>,
      <<"show", "1">>,
      <<"add", "order", "1">>,
      <<"ENABLE", "matching">>,
      <<"add", "symbol", "1", "AAPL">>,
      <<"add", "limit", "sell", "1", "1", "1", "1", "GTC">>,
      <<"add", "limit", "sell", "1", "1", "1", "1">>,
      <<"add", "market", "buy", "7", "1", "1", "IOC">> }

\* The script of scenario S6.
S6 ==
    << <<"enable", "matching">>,
       <<"add", "symbol", "1", "AAPL">>,
       <<"add", "limit", "buy", "1", "1", "100.00", "1000">>,
       <<"add", "limit", "sell", "2", "1", "100.10", "1000">>,
       <<"add", "market", "buy", "3", "1", "400">> >>

Scripts ==
    {S6} \cup UNION {[1..n -> ScriptLines] : n \in 1..MaxLines}

\* ::tolower over the first word of the line (line 213).
tolower(word) ==
    CASE word = "ENABLE" -> "enable"
      [] word = "ADD" -> "add"
      [] OTHER -> word

\* The values of ScenarioCommandType, and what a ScenarioCommand whose type
\* was never assigned can hold: any of them or no enumerator at all.
CommandTypes ==
    {"ENABLE_MATCHING", "ADD_SYMBOL", "DELETE_SYMBOL", "ADD_BOOK", "DELETE_BOOK",
     "ADD_LIMIT_BUY", "ADD_LIMIT_SELL", "ADD_MARKET_BUY", "ADD_MARKET_SELL",
     "REDUCE_ORDER", "MODIFY_ORDER", "REPLACE_ORDER", "DELETE_ORDER",
     "ADD_SLIPPAGE_MARKET_BUY", "ADD_SLIPPAGE_MARKET_SELL", "COMMENT", "UNKNOWN"}
Indeterminate == CommandTypes \cup {"none"}

\* iss >> cmd: the next word, or cmd as it was when the line is exhausted;
\* and what is left of the line after it.
Extract(cmd, rest) == IF rest = <<>> THEN cmd ELSE Head(rest)
After(rest) == IF rest = <<>> THEN <<>> ELSE Tail(rest)

\* The if/else-if chain of parse_command_line from `cmd == "add"` on (lines
\* 220-296): the types command.type can hold after it, and the words left
\* for the arguments.  A branch that assigns nothing leaves the type as the
\* default-initialised struct had it.
Classify(cmd, rest) ==
    LET c2 == Extract(cmd, rest)
        r2 == After(rest)
        c3 == Extract(c2, r2)
        r3 == After(r2)
        c4 == Extract(c3, r3)
        r4 == After(r3)
        is(type, words) == [types |-> {type}, arguments |-> words]
        unassigned(words) == [types |-> Indeterminate, arguments |-> words]
    IN
    IF cmd = "add" /\ rest # <<>>
    THEN CASE c2 = "symbol" -> is("ADD_SYMBOL", r2)
           [] c2 = "book" -> is("ADD_BOOK", r2)
           [] c2 = "limit" ->
                IF c3 = "buy" THEN is("ADD_LIMIT_BUY", r3)
                ELSE IF c3 = "sell" THEN is("ADD_LIMIT_SELL", r3)
                ELSE unassigned(r3)
           [] c2 = "market" ->
                IF c3 = "buy" THEN is("ADD_MARKET_BUY", r3)
                ELSE IF c3 = "sell" THEN is("ADD_MARKET_SELL", r3)
                ELSE unassigned(r3)
           [] c2 = "slippage" ->
                IF c3 = "market"
                THEN IF c4 = "buy" THEN is("ADD_SLIPPAGE_MARKET_BUY", r4)
                     ELSE IF c4 = "sell" THEN is("ADD_SLIPPAGE_MARKET_SELL", r4)
                     ELSE unassigned(r4)
                ELSE unassigned(r3)
           [] OTHER -> unassigned(r2)
    ELSE IF cmd = "delete"
    THEN CASE c2 = "symbol" -> is("DELETE_SYMBOL", r2)
           [] c2 = "book" -> is("DELETE_BOOK", r2)
           [] c2 = "order" -> is("DELETE_ORDER", r2)
           [] OTHER -> unassigned(r2)
    ELSE IF cmd = "reduce" THEN is("REDUCE_ORDER", rest)
    ELSE IF cmd = "modify" THEN is("MODIFY_ORDER", rest)
    ELSE IF cmd = "replace" THEN is("REPLACE_ORDER", rest)
    ELSE is("UNKNOWN", rest)

\* parse_command_line(line, line_number) for a non-empty line: the commands
\* it can return.
parse_command_line(line, line_number) ==
    LET cmd == tolower(Head(line))
        rest == Tail(line)
        parsed ==
            IF Head(line) = "#"
            THEN [types |-> {"COMMENT"}, arguments |-> <<>>]
            ELSE IF cmd = "enable" /\ rest # <<>>
            THEN IF Head(rest) = "matching"
                 THEN [types |-> {"ENABLE_MATCHING"}, arguments |-> Tail(rest)]
                 ELSE Classify(Head(rest), Tail(rest))
            ELSE Classify(cmd, rest)
    IN  {[type |-> t, arguments |-> parsed.arguments, line_number |-> line_number] :
            t \in parsed.types}

\* parse_scenario_file: the command vectors it can return for the lines from
\* line_number on.  Empty lines and UNKNOWN commands are left out.
RECURSIVE parse_scenario_file(_, _)
parse_scenario_file(lines, line_number) ==
    IF line_number > Len(lines) THEN {<<>>}
    ELSE LET later == parse_scenario_file(lines, line_number + 1) IN
         IF lines[line_number] = <<>> THEN later
         ELSE UNION { IF c.type = "UNKNOWN" THEN later
                      ELSE {<<c>> \o cs : cs \in later} :
                      c \in parse_command_line(lines[line_number], line_number) }

\* std::stoll on an argument, 0 (the default_value) when it throws.
stoll(str) ==
    CASE str = "1" -> 1
      [] str = "2" -> 2
      [] str = "3" -> 3
      [] str = "7" -> 7
      [] str = "400" -> 400
      [] str = "1000" -> 1000
      [] str = "100.00" -> 100
      [] str = "100.10" -> 100
      [] OTHER -> 0

\* std::stod on an argument, as whole dollars and ten-thousandths.
stod(str) ==
    CASE str = "100.10" -> [dollars |-> 100, fraction |-> 1000]
      [] OTHER -> [dollars |-> stoll(str), fraction |-> 0]

\* price_from_dollars(dollars): static_cast<Price>(dollars * 10000.0).
price_from_dollars(d) == d.dollars * 10000 + d.fraction

\* parse_number<T>: Price through stod and price_from_dollars, Quantity
\* through stoll and the cast to uint32_t, the ids through stoll.
parse_number(kind, str) ==
    CASE kind = "Price" -> price_from_dollars(stod(str))
      [] kind = "Quantity" -> stoll(str) % QMod
      [] OTHER -> stoll(str)

\* validate_args: the count a handler asks for, by command type.
Arity ==
    [t \in CommandTypes |->
        CASE t \in {"ADD_LIMIT_BUY", "ADD_LIMIT_SELL", "REPLACE_ORDER",
                    "ADD_SLIPPAGE_MARKET_BUY", "ADD_SLIPPAGE_MARKET_SELL"} -> 5
          [] t \in {"ADD_MARKET_BUY", "ADD_MARKET_SELL", "MODIFY_ORDER"} -> 4
          [] t = "REDUCE_ORDER" -> 3
          [] t = "ADD_SYMBOL" -> 2
          [] t \in {"DELETE_SYMBOL", "ADD_BOOK", "DELETE_BOOK", "DELETE_ORDER"} -> 1
          [] OTHER -> 0]
validate_args(args, expected_count) == Len(args) = expected_count

\* OrderBookManager::get_order_book(symbol) called by the only thread there
\* is: the book is created when the registry has none for the symbol.
GetOrderBook(symbol) ==
    IF order_books_find(order_books_, symbol) # 0
    THEN UNCHANGED <<order_books_, heap>>
    ELSE /\ heap' = Append(heap, [symbol |-> symbol, alive |-> TRUE])
         /\ order_books_' = MapPut(order_books_, symbol, Len(heap) + 1)

\* The market and slippage-market handlers (lines 389-443, 500-556) once the
\* argument count is right: reference is the side whose best price the
\* handler reads, slippage what it adds to that price.
ExecuteMarket(order_id, symbol_id, quantity, side, reference, slippage) ==
    IF ~matching_enabled_
    THEN UNCHANGED <<bookVars, crashed, stale_erase, positions_, trade_history_,
                     order_books_, heap>>
    ELSE LET best == IF reference = "SELL" THEN get_best_ask(Book)
                     ELSE get_best_bid(Book)
             price == best[1] + slippage
         IN  /\ GetOrderBook(symbol_id)
             /\ IF best[1] > 0
                THEN \E r \in execute_trade(Book, price, quantity, side) :
                       /\ Install(r.b)
                       /\ crashed' = r.crashed
                       /\ stale_erase' = (stale_erase \/ r.stale)
                       /\ IF r.crashed
                          THEN UNCHANGED <<positions_, trade_history_>>
                          ELSE LET t == record_trade(positions_, trade_history_,
                                                     symbol_id, price, quantity,
                                                     side, order_id)
                               IN  /\ positions_' = t.positions_
                                   /\ trade_history_' = t.trade_history_
                ELSE UNCHANGED <<bookVars, crashed, stale_erase,
                                 positions_, trade_history_>>

\* execute_command(command) returning ret (lines 152-192) with the handler it
\* dispatches to (lines 314-556).
Execute(command, ret) ==
    LET type == command.type
        args == command.arguments
        ok == type \in CommandTypes /\ validate_args(args, Arity[type])
        id(k) == parse_number("Id", args[k])
        side == IF type \in {"ADD_LIMIT_BUY", "ADD_MARKET_BUY",
                             "ADD_SLIPPAGE_MARKET_BUY"} THEN "BUY" ELSE "SELL"
        nothing == UNCHANGED <<bookVars, crashed, stale_erase, positions_,
                               trade_history_, order_books_, heap>>
    IN
    CASE type = "ENABLE_MATCHING" ->
           /\ ret = TRUE
           /\ matching_enabled_' = TRUE
           /\ nothing
      [] type \in {"ADD_SYMBOL", "ADD_BOOK"} ->
           /\ ret = ok
           /\ IF ok THEN GetOrderBook(id(1)) ELSE UNCHANGED <<order_books_, heap>>
           /\ UNCHANGED <<bookVars, crashed, stale_erase, positions_,
                          trade_history_, matching_enabled_>>
      [] type \in {"ADD_LIMIT_BUY", "ADD_LIMIT_SELL"} ->
           /\ IF ok
              THEN LET r == add_order(Book, id(1), parse_number("Price", args[3]),
                                      parse_number("Quantity", args[4]), side)
                   IN  /\ ret = r.ret
                       /\ Install(r.b)
                       /\ GetOrderBook(id(2))
              ELSE /\ ret = FALSE
                   /\ UNCHANGED <<bookVars, order_books_, heap>>
           /\ UNCHANGED <<crashed, stale_erase, positions_, trade_history_,
                          matching_enabled_>>
      [] type \in {"ADD_MARKET_BUY", "ADD_MARKET_SELL"} ->
           /\ ret = ok
           /\ IF ok
              THEN ExecuteMarket(id(1), id(2), parse_number("Quantity", args[3]),
                                 side, Victim(side), 0)
              ELSE nothing
           /\ UNCHANGED matching_enabled_
      [] type \in {"ADD_SLIPPAGE_MARKET_BUY", "ADD_SLIPPAGE_MARKET_SELL"} ->
           /\ ret = ok
           /\ IF ok
              THEN ExecuteMarket(id(1), id(2), parse_number("Quantity", args[3]),
                                 side, side,
                                 IF side = "BUY" THEN parse_number("Price", args[4])
                                 ELSE 0 - parse_number("Price", args[4]))
              ELSE nothing
           /\ UNCHANGED matching_enabled_
      [] type \in {"DELETE_SYMBOL", "DELETE_BOOK", "REDUCE_ORDER", "MODIFY_ORDER",
                   "REPLACE_ORDER", "DELETE_ORDER"} ->
           /\ ret = ok
           /\ nothing
           /\ UNCHANGED matching_enabled_
      [] OTHER ->
           /\ ret = (type = "COMMENT")
           /\ nothing
           /\ UNCHANGED matching_enabled_

\* What run_scenario never touches.
outsideRun == <<call, nops, pc, owner, poolVars, mmap_, feedVars>>

\* run_scenario(filename) up to its loop (lines 19-30): the result is
\* initialised and the file parsed.  The file holds one of Scripts.
RunScenario ==
    /\ ~crashed
    /\ run.at = "idle"
    /\ \E lines \in Scripts :
         \E commands \in parse_scenario_file(lines, 1) :
            /\ script' = lines
            /\ run' = [run EXCEPT !.at = "loop", !.commands = commands, !.i = 1,
                                  !.result = ScenarioResult, !.rejected = {}]
    /\ UNCHANGED <<bookVars, crashed, stale_erase, registryVars, trackerVars,
                   scenarioVars, outsideRun>>

\* One turn of the loop over the commands (lines 32-53).
ExecuteCommand ==
    /\ ~crashed
    /\ run.at = "loop"
    /\ run.i <= Len(run.commands)
    /\ LET command == run.commands[run.i] IN
       IF command.type = "COMMENT"
       THEN /\ run' = [run EXCEPT !.i = @ + 1]
            /\ UNCHANGED <<bookVars, crashed, stale_erase, positions_,
                           trade_history_, order_books_, heap, matching_enabled_>>
       ELSE \E ret \in BOOLEAN :
              /\ Execute(command, ret)
              /\ run' =
                   IF ret
                   THEN [run EXCEPT
                           !.i = @ + 1,
                           !.result.orders_processed =
                               IF command.type \in {"ADD_LIMIT_BUY", "ADD_LIMIT_SELL",
                                                    "ADD_MARKET_BUY", "ADD_MARKET_SELL"}
                               THEN @ + 1 ELSE @]
                   ELSE [run EXCEPT
                           !.at = "collect",
                           !.result.passed = FALSE,
                           !.result.line = command.line_number,
                           !.rejected = @ \cup {command.line_number}]
    /\ UNCHANGED <<script, seen, mmap_, call, nops, pc, owner, poolVars, feedVars>>

\* After the loop (lines 55-88): get_active_symbols, get_stats on every
\* book, the tracker's get_stats, and the runner's own counters.
\* OrderBook::get_stats locks the book's mutex_ and calls get_best_bid, which
\* locks it again (RelockOutcomes); the std::system_error is caught at line
\* 67.
CollectStats ==
    /\ ~crashed
    /\ \/ run.at = "collect"
       \/ run.at = "loop" /\ run.i > Len(run.commands)
    /\ seen' = seen \cup DOMAIN order_books_
    /\ \E o \in IF DOMAIN order_books_ = {} THEN {"unguarded"} ELSE RelockOutcomes :
         LET passed == run.result.passed /\ o # "system_error" IN
         run' = IF o = "deadlock"
                THEN [run EXCEPT !.at = "blocked"]
                ELSE [run EXCEPT
                        !.at = "returned",
                        !.result.passed = passed,
                        !.result.exception = (o = "system_error"),
                        !.total_scenarios = @ + 1,
                        !.passed_scenarios = IF passed THEN @ + 1 ELSE @]
    /\ UNCHANGED <<script, bookVars, crashed, stale_erase, order_books_, heap,
                   trackerVars, scenarioVars, outsideRun>>

NextRun ==
    \/ RunScenario
    \/ ExecuteCommand
    \/ CollectStats

SpecRun == Init /\ [][NextRun]_vars

\* A line the parser gives one command type other than COMMENT and UNKNOWN.
Recognized(line) ==
    LET types == {c.type : c \in parse_command_line(line, 1)} IN
    /\ Cardinality(types) = 1
    /\ types \cap {"COMMENT", "UNKNOWN"} = {}

\* What the commands of a scenario act on.
Applied == <<bookVars, positions_, trade_history_, matching_enabled_,
             order_books_, heap>>

\* C31: a scenario's commands are applied in file order; comments and
\* unknown commands change neither the state nor the result; the returned
\* result has passed = false exactly when a recognized command was rejected,
\* and once a command is rejected no later command is applied.
C31_OnlyRejectionFails ==
    /\ [](run.at = "returned" =>
            (~run.result.passed <=>
                \E l \in run.rejected : Recognized(script[l])))
    /\ [][/\ run.at = "loop" /\ run.i <= Len(run.commands)
             /\ ~Recognized(script[run.commands[run.i].line_number])
             => UNCHANGED Applied /\ run'.result = run.result
          /\ run.at = "loop" /\ run'.at = "loop"
             => \/ run'.i > Len(run.commands)
                \/ run.commands[run.i].line_number < run'.commands[run'.i].line_number
          /\ ~run.result.passed => UNCHANGED Applied]_vars

\* C32: scenario S6 returns passed = true, orders_processed = 3,
\* trades_executed >= 1 and leaves symbol 1 long 400 at $100.10.
C32_ScenarioS6 ==
    script = S6 /\ run.at = "returned" =>
        /\ run.result.passed
        /\ run.result.orders_processed = 3
        /\ run.result.trades_executed >= 1
        /\ Entry(positions_, 1).long_quantity = 400
        /\ Entry(positions_, 1).avg_long_price = price_from_dollars(stod("100.10"))

\* --------------------------------------------------------------- ITCHParser
\* The feed is a sequence of bytes.  parse_file reads it in blocks of
\* buffer_size bytes (8192 in the source, BufferSize here) and walks the
\* records of a block by their 2-byte big-endian length prefix.
BufferSize == 64
MaxRecords == 3

\* The counters of ITCHParser::Stats are uint64_t; CounterBits is their width
\* here.
CounterBits == 3
Count(n) == (n + 1) % (2 ^ CounterBits)

\* data[k] of the C++ code, k from 0.
At(data, k) == data[k + 1]

\* The loops `x = (x << 8) | data[offset + i]` over n bytes.
RECURSIVE BigEndian(_, _, _)
BigEndian(data, offset, n) ==
    IF n = 0 THEN 0
    ELSE BigEndian(data, offset, n - 1) * 256 + At(data, offset + n - 1)

\* ITCHMessageType, by the character of each type that has a handler, and
\* the least length its handler accepts (lines 102, 163, 204, 236, 262,
\* 311, 367).
MessageTypes ==
    [ADD_ORDER_NO_MPID |-> 65, ADD_ORDER_WITH_MPID |-> 70, ORDER_EXECUTED |-> 69,
     ORDER_EXECUTED_WITH_PRICE |-> 67, ORDER_CANCEL |-> 88, ORDER_DELETE |-> 68,
     ORDER_REPLACE |-> 85, TRADE |-> 80, STOCK_DIRECTORY |-> 82, SYSTEM_EVENT |-> 83]
MinLength ==
    [add_order |-> 36, order_executed |-> 32, order_cancel |-> 20,
     order_delete |-> 12, order_replace |-> 36, trade |-> 44,
     stock_directory |-> 40]

\* 'B', the buy_sell_indicator of a buy.
IndicatorB == 66

\* get_symbol_id(stock_locate) on the mapping and the next id (lines
\* 425-436): the two after the call, and the id returned.
get_symbol_id_Unrecorded(mapping, next, stock_locate) ==
    [symbol_mapping_ |-> mapping, next_symbol_id_ |-> next,
     id |-> IF stock_locate \in DOMAIN mapping THEN mapping[stock_locate] ELSE next]
get_symbol_id(mapping, next, stock_locate) ==
    IF stock_locate \in DOMAIN mapping
    THEN [symbol_mapping_ |-> mapping, next_symbol_id_ |-> next,
          id |-> mapping[stock_locate]]
    ELSE [symbol_mapping_ |-> MapPut(mapping, stock_locate, next),
          next_symbol_id_ |-> next + 1, id |-> next]

\* convert_price (lines 438-443).
convert_price(itch_price) == itch_price * 100

\* What a record of the feed can act on, as one value.
FeedState ==
    [stats_ |-> stats_, symbol_mapping_ |-> symbol_mapping_,
     next_symbol_id_ |-> next_symbol_id_, positions_ |-> positions_,
     trade_history_ |-> trade_history_, book |-> Book,
     order_books_ |-> order_books_, heap |-> heap]

\* The fields parse_add_order and parse_trade read: order reference number,
\* buy_sell_indicator, shares, stock_locate, price.
Fields(data) ==
    [order_reference_number |-> BigEndian(data, 3, 8),
     side |-> IF At(data, 11) = IndicatorB THEN "BUY" ELSE "SELL",
     shares |-> BigEndian(data, 12, 4),
     stock_locate |-> At(data, 16),
     price |-> BigEndian(data, 17, 4)]

\* parse_add_order (lines 100-159): the order goes to the book of the symbol
\* through OrderBookManager::add_order, which creates the book when there
\* is none.  The model keeps the contents of the book of ScenarioSymbol.
parse_add_order(data, length, st) ==
    IF length < MinLength.add_order THEN [st |-> st, ret |-> FALSE]
    ELSE LET msg == Fields(data)
             sym == get_symbol_id(st.symbol_mapping_, st.next_symbol_id_,
                                  msg.stock_locate)
             known == order_books_find(st.order_books_, sym.id) # 0
             r == IF sym.id = ScenarioSymbol
                  THEN add_order(st.book, msg.order_reference_number,
                                 convert_price(msg.price), msg.shares % QMod, msg.side)
                  ELSE [b |-> st.book, ret |-> TRUE]
         IN  [st |-> [st EXCEPT
                        !.symbol_mapping_ = sym.symbol_mapping_,
                        !.next_symbol_id_ = sym.next_symbol_id_,
                        !.heap = IF known THEN @
                                 ELSE Append(@, [symbol |-> sym.id, alive |-> TRUE]),
                        !.order_books_ = IF known THEN @
                                         ELSE MapPut(@, sym.id, Len(st.heap) + 1),
                        !.book = r.b,
                        !.stats_.add_orders = IF r.ret THEN Count(@) ELSE @],
              ret |-> r.ret]

\* parse_order_executed, parse_order_cancel, parse_order_delete and
\* parse_order_replace (lines 161-308): the fields are decoded and dropped,
\* the counter of the record goes up.
parse_counted(data, length, st, least, counter) ==
    IF length < least THEN [st |-> st, ret |-> FALSE]
    ELSE [st |-> [st EXCEPT !.stats_[counter] = Count(@)], ret |-> TRUE]

\* parse_trade (lines 310-365).
parse_trade(data, length, st) ==
    IF length < MinLength.trade THEN [st |-> st, ret |-> FALSE]
    ELSE LET msg == Fields(data)
             sym == get_symbol_id(st.symbol_mapping_, st.next_symbol_id_,
                                  msg.stock_locate)
             t == record_trade(st.positions_, st.trade_history_, sym.id,
                               convert_price(msg.price), msg.shares % QMod,
                               msg.side, msg.order_reference_number)
         IN  [st |-> [st EXCEPT
                        !.symbol_mapping_ = sym.symbol_mapping_,
                        !.next_symbol_id_ = sym.next_symbol_id_,
                        !.positions_ = t.positions_,
                        !.trade_history_ = t.trade_history_,
                        !.stats_.trades = Count(@)],
              ret |-> TRUE]

\* parse_stock_directory (lines 367-423).
parse_stock_directory(data, length, st) ==
    IF length < MinLength.stock_directory THEN [st |-> st, ret |-> FALSE]
    ELSE LET sym == get_symbol_id(st.symbol_mapping_, st.next_symbol_id_, At(data, 3))
         IN  [st |-> [st EXCEPT !.symbol_mapping_ = sym.symbol_mapping_,
                                !.next_symbol_id_ = sym.next_symbol_id_],
              ret |-> TRUE]

\* process_message(data, length) (lines 59-98).
process_message(data, length, st) ==
    IF length < 3 THEN [st |-> st, ret |-> FALSE]
    ELSE LET message_type == At(data, 2)
             counted == [st EXCEPT !.stats_.total_messages = Count(@)]
             T == MessageTypes
         IN  CASE message_type \in {T.ADD_ORDER_NO_MPID, T.ADD_ORDER_WITH_MPID} ->
                    parse_add_order(data, length, counted)
               [] message_type \in {T.ORDER_EXECUTED, T.ORDER_EXECUTED_WITH_PRICE} ->
                    parse_counted(data, length, counted,
                                  MinLength.order_executed, "executions")
               [] message_type = T.ORDER_CANCEL ->
                    parse_counted(data, length, counted,
                                  MinLength.order_cancel, "cancels")
               [] message_type = T.ORDER_DELETE ->
                    parse_counted(data, length, counted,
                                  MinLength.order_delete, "deletes")
               [] message_type = T.ORDER_REPLACE ->
                    parse_counted(data, length, counted,
                                  MinLength.order_replace, "replaces")
               [] message_type = T.TRADE -> parse_trade(data, length, counted)
               [] message_type = T.STOCK_DIRECTORY ->
                    parse_stock_directory(data, length, counted)
               [] OTHER -> [st |-> counted, ret |-> TRUE]

\* The feeds parse_file is given: up to MaxRecords records, each one of
\* RecordKinds, as the bytes an encoder writes for them.
Zeros(n) == [i \in 1..n |-> 0]
Word(value, n) == Zeros(n - 1) \o <<value>>
Record(length, type, fields) ==
    <<length \div 256, length % 256, type>> \o fields
        \o Zeros(length - 3 - Len(fields))
OrderFields(order_reference_number, indicator, shares, stock_locate, price) ==
    Word(order_reference_number, 8) \o <<indicator>> \o Word(shares, 4)
        \o <<stock_locate>> \o Word(price, 4)

\* The stock locate the records carry.
Locate == 5

RecordKinds ==
    {"add", "trade", "directory", "executed", "cancel", "delete", "replace",
     "short", "zero", "pad"}

\* The bytes of one record written at position at of the feed: an add order
\* (sell 1 at 1), a trade (buy 1 at 1), a stock directory, the four records
\* that are only counted, a delete record one byte shorter than its handler
\* accepts, a record whose length prefix is 0, and a system event that
\* fills the block up to the next multiple of BufferSize.
Bytes(kind, at) ==
    LET T == MessageTypes
        gap == (BufferSize - (at % BufferSize)) % BufferSize
    IN
    CASE kind = "add" ->
           Record(MinLength.add_order, T.ADD_ORDER_NO_MPID,
                  OrderFields(1, IndicatorB + 1, 1, Locate, 1))
      [] kind = "trade" ->
           Record(MinLength.trade, T.TRADE, OrderFields(7, IndicatorB, 1, Locate, 1))
      [] kind = "directory" ->
           Record(MinLength.stock_directory, T.STOCK_DIRECTORY, <<Locate>>)
      [] kind = "executed" -> Record(MinLength.order_executed, T.ORDER_EXECUTED, <<>>)
      [] kind = "cancel" -> Record(MinLength.order_cancel, T.ORDER_CANCEL, <<>>)
      [] kind = "delete" -> Record(MinLength.order_delete, T.ORDER_DELETE, <<>>)
      [] kind = "replace" -> Record(MinLength.order_replace, T.ORDER_REPLACE, <<>>)
      [] kind = "short" -> Record(MinLength.order_delete - 1, T.ORDER_DELETE, <<>>)
      [] kind = "zero" -> <<0, 0>>
      [] OTHER -> IF gap < 3 THEN <<>> ELSE Record(gap, T.SYSTEM_EVENT, <<>>)

RECURSIVE Encode(_, _)
Encode(kinds, written) ==
    IF kinds = <<>> THEN written
    ELSE Encode(Tail(kinds), written \o Bytes(Head(kinds), Len(written)))

Feeds ==
    LET records == UNION {[1..n -> RecordKinds] : n \in 1..MaxRecords} IN
    {Encode(r, <<>>) : r \in records} \cup {Encode(Append(r, "pad"), <<>>) : r \in records}

\* What parse_file never touches.
outsideFeed == <<crashed, stale_erase, call, nops, pc, owner, seen, poolVars,
                 mmap_, scenarioVars, runVars>>

\* parse_file(filename) up to its loop (lines 17-27): the file is opened.
ParseFile ==
    /\ ~crashed
    /\ file.at = "idle"
    /\ \E bytes \in Feeds :
         file' = [at |-> "read", unread |-> bytes, buffer |-> <<>>, offset |-> 0]
    /\ UNCHANGED <<bookVars, order_books_, heap, trackerVars, symbol_mapping_,
                   next_symbol_id_, stats_, outsideFeed>>

\* The condition of the outer loop (line 29): file.read is true when it got
\* buffer_size bytes; with fewer left the loop ends and parse_file returns
\* true (lines 52-56).
Read ==
    /\ file.at = "read"
    /\ file' = IF Len(file.unread) >= BufferSize
               THEN [at |-> "scan", offset |-> 0,
                     buffer |-> SubSeq(file.unread, 1, BufferSize),
                     unread |-> SubSeq(file.unread, BufferSize + 1, Len(file.unread))]
               ELSE [file EXCEPT !.at = "returned"]
    /\ UNCHANGED <<bookVars, order_books_, heap, trackerVars, symbol_mapping_,
                   next_symbol_id_, stats_, outsideFeed>>

\* The record the inner loop is at: its length prefix and its bytes, when
\* the block holds all of it (lines 36-42).
Framed ==
    /\ file.at = "scan"
    /\ file.offset + 2 <= Len(file.buffer)
    /\ file.offset + BigEndian(file.buffer, file.offset, 2) <= Len(file.buffer)
message_length == BigEndian(file.buffer, file.offset, 2)
Message == SubSeq(file.buffer, file.offset + 1, Len(file.buffer))

\* One turn of the inner loop (lines 34-49).
Scan ==
    /\ file.at = "scan"
    /\ IF ~Framed
       THEN /\ file' = [file EXCEPT !.at = "read"]
            /\ UNCHANGED <<bookVars, order_books_, heap, positions_, trade_history_,
                           symbol_mapping_, next_symbol_id_, stats_>>
       ELSE LET r == process_message(Message, message_length, FeedState) IN
            /\ stats_' = IF r.ret THEN r.st.stats_
                         ELSE [r.st.stats_ EXCEPT !.errors = Count(@)]
            /\ symbol_mapping_' = r.st.symbol_mapping_
            /\ next_symbol_id_' = r.st.next_symbol_id_
            /\ positions_' = r.st.positions_
            /\ trade_history_' = r.st.trade_history_
            /\ Install(r.st.book)
            /\ order_books_' = r.st.order_books_
            /\ heap' = r.st.heap
            /\ file' = [file EXCEPT !.offset = @ + message_length]
    /\ UNCHANGED outsideFeed

NextFeed ==
    \/ ParseFile
    \/ Read
    \/ Scan

SpecFeed == Init /\ [][NextFeed]_vars

\* The loops of parse_file run on: a step that can be taken is taken.
FairSpecFeed == Init /\ [][NextFeed]_vars /\ WF_vars(Read) /\ WF_vars(Scan)

\* C33: parse_file returns on every finite feed, whatever its length
\* prefixes are.
C33_ParseFileReturns == (file.at = "read") ~> (file.at = "returned")

\* The inner loop is at a whole record of the given type that its handler
\* accepts.
Handles(type, least) ==
    /\ Framed
    /\ message_length >= least
    /\ At(Message, 2) = type

\* The step changes no counter of stats_ outside the given ones.
OtherCountersKept(counters) ==
    \A c \in DOMAIN stats_ \ counters : stats_'[c] = stats_[c]

\* The records that are only counted, with their counter.
CountedRecords ==
    { <<MessageTypes.ORDER_EXECUTED, MinLength.order_executed, "executions">>,
      <<MessageTypes.ORDER_EXECUTED_WITH_PRICE, MinLength.order_executed, "executions">>,
      <<MessageTypes.ORDER_CANCEL, MinLength.order_cancel, "cancels">>,
      <<MessageTypes.ORDER_DELETE, MinLength.order_delete, "deletes">>,
      <<MessageTypes.ORDER_REPLACE, MinLength.order_replace, "replaces">> }

\* Executed, cancel, delete and replace records change their counter and the
\* count of messages, and nothing else.
CountedOnly ==
    \A k \in CountedRecords :
        Handles(k[1], k[2]) =>
            /\ UNCHANGED <<bookVars, order_books_, heap, positions_, trade_history_,
                           symbol_mapping_, next_symbol_id_>>
            /\ stats_' = [stats_ EXCEPT ![k[3]] = Count(@),
                                        !.total_messages = Count(@)]

\* The stock locate of the step's record is in the mapping afterwards, under
\* the id it had or under the next id, and no other entry has changed.
LocateMapped(stock_locate) ==
    IF stock_locate \in DOMAIN symbol_mapping_
    THEN UNCHANGED <<symbol_mapping_, next_symbol_id_>>
    ELSE /\ symbol_mapping_' = MapPut(symbol_mapping_, stock_locate, next_symbol_id_)
         /\ next_symbol_id_' = next_symbol_id_ + 1

\* A trade record is recorded once, in the journal of its symbol.
RecordedOnce ==
    LET msg == Fields(Message)
        symbol == symbol_mapping_'[msg.stock_locate]
    IN  /\ Journal(trade_history_', symbol) =
              Append(Journal(trade_history_, symbol),
                     Trade(symbol, msg.price * 100, msg.shares, msg.side,
                           msg.order_reference_number))
        /\ \A other \in (DOMAIN trade_history_' \cup DOMAIN trade_history_) \ {symbol} :
              Journal(trade_history_', other) = Journal(trade_history_, other)

\* C34, as stated: a trade record changes only the position tracker (one
\* record_trade) and the trades counter and no order book; executed, cancel,
\* delete and replace records change only statistics counters; a stock
\* directory record changes only the locate-to-symbol mapping.
C34_RecordsChangeOnlyTheirTarget ==
    [][/\ Handles(MessageTypes.TRADE, MinLength.trade) =>
            /\ UNCHANGED <<bookVars, order_books_, heap,
                           symbol_mapping_, next_symbol_id_>>
            /\ OtherCountersKept({"trades", "total_messages"})
            /\ stats_'.trades = Count(stats_.trades)
       /\ CountedOnly
       /\ Handles(MessageTypes.STOCK_DIRECTORY, MinLength.stock_directory) =>
            /\ UNCHANGED <<bookVars, order_books_, heap, positions_, trade_history_>>
            /\ OtherCountersKept({"total_messages"})]_vars

\* C34, amended: every record the parser handles also counts as a message;
\* a trade record changes the tracker by one record_trade, the trades
\* counter and, when its stock locate is new, the locate-to-symbol mapping,
\* and no order book; executed, cancel, delete and replace records change
\* their counter only; a stock directory record changes the mapping only.
C34_RecordsChangeTargetAndMapping ==
    [][/\ Handles(MessageTypes.TRADE, MinLength.trade) =>
            /\ UNCHANGED <<bookVars, order_books_, heap>>
            /\ LocateMapped(Fields(Message).stock_locate)
            /\ RecordedOnce
            /\ stats_' = [stats_ EXCEPT !.trades = Count(@),
                                        !.total_messages = Count(@)]
       /\ CountedOnly
       /\ Handles(MessageTypes.STOCK_DIRECTORY, MinLength.stock_directory) =>
            /\ UNCHANGED <<bookVars, order_books_, heap, positions_, trade_history_>>
            /\ LocateMapped(At(Message, 3))
            /\ stats_' = [stats_ EXCEPT !.total_messages = Count(@)]]_vars

\* The last block began with a trade record, which was handled after an add
\* order record of an earlier block had reached the book.
C34_Witness ==
    /\ file.at = "returned"
    /\ Len(file.buffer) = BufferSize
    /\ At(file.buffer, 2) = MessageTypes.TRADE
    /\ stats_.trades = 1
    /\ stats_.add_orders = 1
    /\ orders_ # <<>>
    /\ DOMAIN symbol_mapping_ = {Locate}
    /\ Entry(positions_, 1).long_quantity = 1

====
